---------------------------- MODULE Spec2Model ----------------------------
(*
  A model of the workflow state-reconciliation core of swagger2dcat
  (src/app.py, src/utils/session_utils.py).

  The state is the process-wide job registry (processing_results), the
  temporary result store written by save_processing_data, the background
  runner thread of each job (url.process_api_data), one browser session
  (the Flask session: the fast tier) and the per-session JSON files of
  session_utils (the durable tier).  Every request handler is one action;
  the runner thread is cut into the steps between which another thread can
  observe or change the registry.

  Strings that the code normalises are sequences of one-character strings,
  URLs are sequences of lexical tokens, so that strip(), the keyword split
  and the regular expression of detect_office_id_from_url are computed and
  not assumed.
*)
EXTENDS Integers, Sequences, FiniteSets, TLC

-----------------------------------------------------------------------------
(* Bounds of the model *)

\* number of step-1 submissions (background jobs) in one run
MaxJobs == 2

\* longest title typed by the user, in characters
MaxLen == 2

\* status polls that can be in flight at the same time
MaxPolls == 2

-----------------------------------------------------------------------------
(* Text *)

\* the characters of the model: a blank and a letter
Chars == {" ", "a"}

RECURSIVE StrsUpTo(_)
StrsUpTo(n) ==
    IF n = 0 THEN {<<>>}
    ELSE LET S == StrsUpTo(n - 1)
         IN  S \cup {Append(s, c) : s \in {t \in S : Len(t) = n - 1}, c \in Chars}

\* str.strip(): leading and trailing blanks removed
RECURSIVE LStrip(_)
LStrip(s) == IF s # <<>> /\ Head(s) = " " THEN LStrip(Tail(s)) ELSE s

RECURSIVE RStrip(_)
RStrip(s) ==
    IF s # <<>> /\ s[Len(s)] = " " THEN RStrip(SubSeq(s, 1, Len(s) - 1)) ELSE s

Strip(s) == RStrip(LStrip(s))

\* [kw.strip() for kw in keywords_str.split(',') if kw.strip()]
\* a comma-separated string is the sequence of its segments (at least one)
RECURSIVE SplitKeywords(_)
SplitKeywords(segs) ==
    IF segs = <<>> THEN <<>>
    ELSE IF Strip(Head(segs)) # <<>>
         THEN <<Strip(Head(segs))>> \o SplitKeywords(Tail(segs))
         ELSE SplitKeywords(Tail(segs))

\* Python truthiness of a string or list
Truthy(s) == s # <<>>

\* a or b, for strings and lists
Or2(a, b) == IF Truthy(a) THEN a ELSE b

-----------------------------------------------------------------------------
(* URLs and publisher identifiers *)

\* A URL is the sequence of its lexical tokens: a scheme, host labels
\* separated by ".", a domain suffix, a path.  The empty string is <<>>.
SchemeTokens == {"https://", "http://", "ftp://"}
LabelTokens  == {"bafu", "BAFU", "bfs", "www"}

\* str.upper() and str.lower() on the tokens of the model
UpperTok(t) ==
    CASE t \in {"bafu", "BAFU"} -> "BAFU"
      [] t \in {"bfs", "BFS"}   -> "BFS"
      [] t \in {"www", "WWW"}   -> "WWW"
      [] t \in {"ch_", "CH_"}   -> "CH_"
      [] OTHER                  -> t

LowerTok(t) ==
    CASE t \in {"bafu", "BAFU"} -> "bafu"
      [] t \in {"bfs", "BFS"}   -> "bfs"
      [] t \in {"www", "WWW"}   -> "www"
      [] t \in {"ch_", "CH_"}   -> "ch_"
      [] t \in {"bearer", "Bearer", "BEARER"} -> "bearer"
      [] OTHER                  -> t

Lower(s) == [i \in 1..Len(s) |-> LowerTok(s[i])]

\* "admin.ch" in url (case-sensitive substring test)
ContainsAdminCh(url) ==
    \E i \in 1..Len(url) : url[i] \in {".admin.ch", "/admin.ch"}

\* re.search(r"https?://([a-z0-9\-]+)\.admin\.ch", url, re.IGNORECASE):
\* the positions where the pattern matches; group(1) is the label at i + 1
RegexMatches(url) ==
    {i \in 1..(Len(url) - 2) :
        /\ url[i] \in {"https://", "http://"}
        /\ url[i + 1] \in LabelTokens
        /\ url[i + 2] \in {".admin.ch", ".ADMIN.CH"}}

Min(S) == CHOOSE x \in S : \A y \in S : x <= y

\* the first candidate of possible_ids that matches an agent id, or None (<<>>)
FirstMatchingId(possible_ids, agents) ==
    LET hits == {k \in 1..Len(possible_ids) :
                    \E agent \in agents : Lower(agent) = Lower(possible_ids[k])}
    IN  IF hits = {} THEN <<>> ELSE possible_ids[Min(hits)]

\* detect_office_id_from_url(url, agents); None is <<>>
detect_office_id_from_url(url, agents) ==
    IF ~Truthy(url) \/ ~ContainsAdminCh(url) THEN <<>>
    ELSE IF RegexMatches(url) = {} THEN <<>>
    ELSE LET abbrev == url[Min(RegexMatches(url)) + 1]
             possible_ids == << <<"CH_", UpperTok(abbrev)>>, <<"CH_", LowerTok(abbrev)>> >>
         IN  FirstMatchingId(possible_ids, agents)

\* the loop taken from the last URL to the first
RECURSIVE DetectAgencyLastFirst(_, _)
DetectAgencyLastFirst(urls, agents) ==
    IF urls = <<>> THEN <<>>
    ELSE LET detected_agency ==
                 detect_office_id_from_url(urls[Len(urls)], agents)
         IN  IF Truthy(detected_agency) THEN detected_agency
             ELSE DetectAgencyLastFirst(SubSeq(urls, 1, Len(urls) - 1), agents)

\* "for url in [swagger_url, landing_page_url]: ... break" of ai()
RECURSIVE DetectAgency(_, _)
DetectAgency(urls, agents) ==
    IF urls = <<>> THEN <<>>
    ELSE LET detected_agency == detect_office_id_from_url(Head(urls), agents)
         IN  IF Truthy(detected_agency) THEN detected_agency
             ELSE DetectAgency(Tail(urls), agents)

-----------------------------------------------------------------------------
(* Data of the two storage tiers *)

Langs == {"en", "de", "fr", "it"}

Entry(t, d, k) == [title |-> t, description |-> d, keywords |-> k]
EmptyEntry == Entry(<<>>, <<>>, <<>>)

\* the empty dict {} that session.get('translations', {}) and
\* load_from_session_file('translations', {}) default to
NoTranslations == [l \in {} |-> EmptyEntry]

\* any(isinstance(lang_data, dict) and (lang_data.get('title') or
\*     lang_data.get('description')) for lang_data in translations.values())
HasContent(translations) ==
    \E l \in DOMAIN translations :
        Truthy(translations[l].title) \/ Truthy(translations[l].description)

\* a structure that has an entry for English only
EnglishOnlyTranslations(title, description, keywords) ==
    [l \in {"en"} |-> Entry(title, description, keywords)]

\* the structure save_api_details and upload build around an English entry
SeededTranslations(title, description, keywords) ==
    [l \in Langs |-> IF l = "en" THEN Entry(title, description, keywords)
                     ELSE EmptyEntry]

\* a key that is not in the session (for the keys whose absence is read
\* differently from an empty value)
Absent == "<absent>"

\* swagger_info as extract_swagger_info returns it; {} reads like NoSwaggerInfo
NoSwaggerInfo ==
    [error |-> FALSE, title |-> <<>>, description |-> <<>>, additional_info |-> <<>>]

NoAgentsFile == [stored |-> FALSE, agents |-> {}]

\* the session after session.clear()
EmptySession ==
    [processing_id          |-> 0,
     processing_status      |-> "",
     processing_error       |-> "",
     has_swagger_url        |-> FALSE,
     swagger_url            |-> <<>>,
     landing_page_url       |-> <<>>,
     swagger_info           |-> NoSwaggerInfo,
     landing_page_content   |-> <<>>,
     document_links         |-> <<>>,
     address_data           |-> <<>>,
     agents_temp            |-> NoAgentsFile,
     title                  |-> <<>>,
     description            |-> <<>>,
     keywords               |-> <<>>,
     generated_title        |-> <<>>,
     generated_description  |-> <<>>,
     generated_keywords     |-> <<>>,
     theme_codes            |-> <<>>,
     access_rights_code     |-> Absent,
     license_code           |-> "",
     selected_agency        |-> <<>>,
     translations           |-> NoTranslations,
     translations_available |-> FALSE]

\* the files of one session directory (session_storage/<_id>/<key>.json)
NoApiDetails ==
    [stored |-> FALSE, title |-> <<>>, description |-> <<>>, keywords |-> <<>>,
     theme_codes |-> <<>>, access_rights_code |-> "", license_code |-> "",
     selected_agency |-> <<>>]

NoGeneratedContent ==
    [stored |-> FALSE, generated_title |-> <<>>, generated_description |-> <<>>,
     generated_keywords |-> <<>>, theme_codes |-> <<>>]

EmptyFiles ==
    [api_details       |-> NoApiDetails,
     generated_content |-> NoGeneratedContent,
     translations      |-> NoTranslations]

-----------------------------------------------------------------------------
(* Job registry, result store and runner threads *)

JobIds == 1..MaxJobs

\* a job id that is not a key of processing_results
NoEntry == [status |-> "absent", percent |-> -1, error |-> Absent]

\* a file swagger2dcat_<id>.pkl that does not exist
NoFile == [stored |-> FALSE]

\* the locals of a runner thread that has not been started
IdleRunner ==
    [pc |-> "idle", swagger_url |-> <<>>, landing_page_url |-> <<>>,
     swagger_info |-> NoSwaggerInfo, landing_page_content |-> <<>>,
     document_links |-> <<>>, address_data |-> <<>>, agents |-> {},
     scraped |-> FALSE, exc |-> "",
     calls |-> [extract_swagger_info |-> 0, extract_web_content |-> 0,
                get_cached_agents |-> 0, save_processing_data |-> 0]]

VARIABLES
    processing_results,  \* app.py processing_results: job id -> entry
    temp_files,          \* swagger2dcat_<id>.pkl of the temp directory
    runner,              \* the thread of each job: position and locals
    workflow_id,         \* the id given to the latest step-1 submission
    session,             \* the Flask session of the browser (fast tier)
    files,               \* the JSON files of the session (durable tier)
    request,             \* the request handled last: handler and form
    response,            \* the answer to that request
    merged,              \* ids of the jobs whose payload a poll put in the session
    delivered,           \* per job: terminal answers given by polls
    observed,            \* per job: the percent of the last progress answer
    terminal_writes,     \* per job: terminal states written by the runner
    agents_cache,        \* app.py agents_cache: the directory held in memory
    agents_cache_file,   \* cache/agents_cache.pkl of utils.i14y_utils
    obtained,            \* the directories the catalog API has answered with
    polls                \* the status polls in flight, one per request thread

vars == <<processing_results, temp_files, runner, workflow_id, session, files,
          request, response, merged, delivered, observed, terminal_writes,
          agents_cache, agents_cache_file, obtained, polls>>

jobvars  == <<processing_results, temp_files, runner, workflow_id>>
histvars == <<merged, delivered, observed, terminal_writes>>

\* the two caches of the publisher directory and the record of its fetches
cachevars == <<agents_cache, agents_cache_file, obtained>>

-----------------------------------------------------------------------------
(* External collaborators: the answers they can give *)

\* extract_swagger_info never raises: it returns the fields or {'error': ...}
SwaggerError ==
    [error |-> TRUE, title |-> <<>>, description |-> <<>>, additional_info |-> <<>>]

SwaggerParsed ==
    [error |-> FALSE, title |-> <<"s">>, description |-> <<>>,
     additional_info |-> <<"Extracted from Swagger/OpenAPI specification.">>]

\* extract_web_content: (meta_description, content, doc_links, address_data);
\* all empty on failure
ScrapeFailed ==
    [description |-> <<>>, content |-> <<>>, doc_links |-> <<>>,
     address_data |-> <<>>]
ScrapeContent ==
    [description |-> <<>>, content |-> <<"a">>, doc_links |-> <<"doc">>,
     address_data |-> <<"address">>]

ScrapeOutcomes == {ScrapeFailed, ScrapeContent}

\* the publisher directory as get_cached_agents returns it: a list of agents,
\* each read only through its id; [] when the directory cannot be fetched
Directories == {{}, {<<"CH_", "BAFU">>}}

\* The answers the remote services give during a run: the outcomes of
\* fetching a specification, of scraping a landing page and of reading the
\* publisher directory.
\* Dependable: every service answers.  Unreliable: each may also fail.
Dependable ==
    [swagger |-> {SwaggerParsed}, web |-> {ScrapeContent},
     directories |-> {{<<"CH_", "BAFU">>}}]

Unreliable ==
    [swagger |-> {SwaggerError, SwaggerParsed}, web |-> ScrapeOutcomes,
     directories |-> Directories]

\* extract_swagger_info(swagger_url): an empty URL cannot be fetched
SwaggerOutcomes(swagger_url, services) ==
    IF swagger_url = <<>> THEN {SwaggerError} ELSE services.swagger

-----------------------------------------------------------------------------
(* POST /url: create the registry entry and start the runner *)

\* processing_results[proc_id]['progress'] = {..., 'percent': percent, ...}
\* guarded by "if proc_id in processing_results"
WithProgress(registry, proc_id, percent) ==
    IF registry[proc_id] # NoEntry
    THEN [registry EXCEPT ![proc_id].percent = percent]
    ELSE registry

InitialPercent  == 5
ParsingPercent  == 15
ParsedPercent   == 40
LandingPercent  == 50
MetadataPercent == 75
FinalPercent    == 99
DefaultPercent  == 25

url_post(swagger_url, landing_page_url) ==
    /\ workflow_id < MaxJobs
    /\ LET id == workflow_id + 1
           created == [processing_results EXCEPT
                          ![id] = [status |-> "processing", percent |-> -1,
                                   error |-> Absent]]
       IN  /\ workflow_id' = id
           /\ processing_results' = WithProgress(created, id, InitialPercent)
           /\ runner' = [runner EXCEPT
                            ![id] = [IdleRunner EXCEPT
                                        !.pc = "start",
                                        !.swagger_url = swagger_url,
                                        !.landing_page_url = landing_page_url]]
           /\ request' = [handler |-> "url", method |-> "POST",
                          swagger_url |-> swagger_url,
                          landing_page_url |-> landing_page_url]
           /\ response' = [kind |-> "redirect", target |-> "loading", job |-> id]
    /\ UNCHANGED <<cachevars, polls, temp_files, session, files, histvars>>

\* the request threads that serve /check_processing_status
PollThreads == 1..MaxPolls

\* a request thread that serves no poll: its position, the id it polls, the
\* status it read, the payload load_processing_data returned, its answer
IdlePoll ==
    [pc |-> "idle", processing_id |-> 0, status |-> "", message |-> "",
     loaded |-> FALSE, processing_data |-> NoFile, answer |-> ""]

-----------------------------------------------------------------------------
(* url.process_api_data: the runner thread.  A step ends at each write to
   the registry or the result store; what the thread computes on its own
   locals belongs to the step of the write that follows it. *)

\* the rest of the state, which no step of the runner touches
RunnerFrame ==
    UNCHANGED <<cachevars, polls, temp_files, workflow_id, session, files, request, response,
                merged, delivered, observed>>

\* a sub-step raises: control goes to "except Exception as e"
Raise(j, text) ==
    /\ runner' = [runner EXCEPT ![j].pc = "except", ![j].exc = text]
    /\ UNCHANGED <<processing_results, terminal_writes>>
    /\ RunnerFrame

\* progress 15 %
progress_parsing(j) ==
    /\ runner[j].pc = "start"
    /\ processing_results' = WithProgress(processing_results, j, ParsingPercent)
    /\ runner' = [runner EXCEPT ![j].pc = "extract"]
    /\ UNCHANGED terminal_writes
    /\ RunnerFrame

\* swagger_info = extract_swagger_info(swagger_url); progress 40 %
extract_swagger(j, services) ==
    /\ runner[j].pc = "extract"
    /\ \E info \in SwaggerOutcomes(runner[j].swagger_url, services) :
          runner' = [runner EXCEPT ![j].pc = "landing", ![j].swagger_info = info,
                                   ![j].calls.extract_swagger_info = @ + 1]
    /\ processing_results' = WithProgress(processing_results, j, ParsedPercent)
    /\ UNCHANGED terminal_writes
    /\ RunnerFrame

\* an exception the try block does not expect while the specification is
\* read (an import fails, memory runs out): control goes to the except branch
unexpected_exception(j) ==
    /\ runner[j].pc = "extract"
    /\ Raise(j, "exception")

\* the landing checkpoint writes the snapshot of the parsing step again
progress_landing_stale(j) ==
    /\ runner[j].pc = "landing"
    /\ processing_results' = WithProgress(processing_results, j, ParsingPercent)
    /\ runner' = [runner EXCEPT ![j].pc = "scrape"]
    /\ UNCHANGED terminal_writes
    /\ RunnerFrame

\* progress 50 %
progress_landing(j) ==
    /\ runner[j].pc = "landing"
    /\ processing_results' = WithProgress(processing_results, j, LandingPercent)
    /\ runner' = [runner EXCEPT ![j].pc = "scrape"]
    /\ UNCHANGED terminal_writes
    /\ RunnerFrame

\* the scraper is called whatever the landing page URL is
scrape_landing_page_always(j, services) ==
    /\ runner[j].pc = "scrape"
    /\ \E web \in services.web :
          runner' = [runner EXCEPT
              ![j].pc = "agents",
              ![j].scraped = TRUE,
              ![j].calls.extract_web_content = @ + 1,
              ![j].address_data = web.address_data,
              ![j].landing_page_content =
                  IF Truthy(web.content) THEN Or2(web.description, web.content)
                  ELSE <<>>,
              ![j].document_links =
                  IF Truthy(web.content) THEN web.doc_links ELSE <<>>]
    /\ processing_results' = WithProgress(processing_results, j, MetadataPercent)
    /\ UNCHANGED terminal_writes
    /\ RunnerFrame

\* "if landing_page_url and landing_page_url.strip()": scrape, else skip;
\* progress 75 %
scrape_landing_page(j, services) ==
    /\ runner[j].pc = "scrape"
    /\ IF Truthy(runner[j].landing_page_url) /\ Truthy(Strip(runner[j].landing_page_url))
       THEN \E web \in services.web :
               runner' = [runner EXCEPT
                   ![j].pc = "agents",
                   ![j].scraped = TRUE,
                   ![j].calls.extract_web_content = @ + 1,
                   ![j].address_data = web.address_data,
                   ![j].landing_page_content =
                       IF Truthy(web.content) THEN Or2(web.description, web.content)
                       ELSE <<>>,
                   ![j].document_links =
                       IF Truthy(web.content) THEN web.doc_links ELSE <<>>]
       ELSE runner' = [runner EXCEPT ![j].pc = "agents"]
    /\ processing_results' = WithProgress(processing_results, j, MetadataPercent)
    /\ UNCHANGED terminal_writes
    /\ RunnerFrame

\* agents = get_cached_agents(); progress 99 %
load_agents(j, services) ==
    /\ runner[j].pc = "agents"
    /\ \E agents \in services.directories :
          runner' = [runner EXCEPT ![j].pc = "save", ![j].agents = agents,
                                   ![j].calls.get_cached_agents = @ + 1]
    /\ processing_results' = WithProgress(processing_results, j, FinalPercent)
    /\ UNCHANGED terminal_writes
    /\ RunnerFrame

\* the dump leaves no file although save_processing_data returns True
UnwrittenData(r) ==
    [stored |-> FALSE,
     swagger_info |-> r.swagger_info,
     landing_page_content |-> r.landing_page_content,
     document_links |-> r.document_links,
     agents |-> r.agents,
     address_data |-> r.address_data,
     swagger_url |-> r.swagger_url,
     landing_page_url |-> r.landing_page_url]

\* processing_data as the runner assembles it
ProcessingData(r) ==
    [stored |-> TRUE,
     swagger_info |-> r.swagger_info,
     landing_page_content |-> r.landing_page_content,
     document_links |-> r.document_links,
     agents |-> r.agents,
     address_data |-> r.address_data,
     swagger_url |-> r.swagger_url,
     landing_page_url |-> r.landing_page_url]

\* save_processing_data(proc_id, processing_data) returns True: the file is written
save_processing_data_ok(j) ==
    /\ runner[j].pc = "save"
    /\ temp_files' = [temp_files EXCEPT ![j] = ProcessingData(runner[j])]
    /\ runner' = [runner EXCEPT ![j].pc = "mark_complete",
                                ![j].calls.save_processing_data = @ + 1]
    /\ UNCHANGED <<cachevars, polls, processing_results, workflow_id, session, files, request,
                   response, histvars>>

\* save_processing_data returns False (the dump failed): nothing is written
save_processing_data_fails(j) ==
    /\ runner[j].pc = "save"
    /\ runner' = [runner EXCEPT ![j].pc = "mark_error",
                                ![j].calls.save_processing_data = @ + 1]
    /\ UNCHANGED <<cachevars, polls, processing_results, temp_files, workflow_id, session, files,
                   request, response, histvars>>

\* the thread goes on without writing the status
SkipStatus(j, status, next) ==
    /\ runner' = [runner EXCEPT ![j].pc = "done"]
    /\ UNCHANGED <<processing_results, terminal_writes>>

\* processing_results[proc_id]['status'] = status, guarded by the membership
\* test; counts the terminal state the runner wrote
SetStatus(j, status, next) ==
    IF processing_results[j] # NoEntry
    THEN /\ processing_results' = [processing_results EXCEPT ![j].status = status]
         /\ terminal_writes' = [terminal_writes EXCEPT ![j] = @ + 1]
         /\ runner' = [runner EXCEPT ![j].pc = next]
    ELSE /\ runner' = [runner EXCEPT ![j].pc = "done"]
         /\ UNCHANGED <<processing_results, terminal_writes>>

mark_complete(j) ==
    /\ runner[j].pc = "mark_complete"
    /\ SetStatus(j, "complete", "done")
    /\ UNCHANGED <<cachevars, polls, temp_files, workflow_id, session, files, request, response,
                   merged, delivered, observed>>

mark_error(j) ==
    /\ runner[j].pc = "mark_error"
    /\ SetStatus(j, "error", "error_text")
    /\ UNCHANGED <<cachevars, polls, temp_files, workflow_id, session, files, request, response,
                   merged, delivered, observed>>

\* processing_results[proc_id]['error'] = text: a KeyError when a poll has
\* deleted the entry since the status was written
SetErrorText(j, text, on_key_error) ==
    IF processing_results[j] # NoEntry
    THEN /\ processing_results' = [processing_results EXCEPT ![j].error = text]
         /\ runner' = [runner EXCEPT ![j].pc = "done"]
    ELSE /\ runner' = [runner EXCEPT ![j].pc = on_key_error, ![j].exc = "KeyError"]
         /\ UNCHANGED processing_results

write_error_text(j) ==
    /\ runner[j].pc = "error_text"
    /\ SetErrorText(j, "Failed to save processing data", "except")
    /\ UNCHANGED <<cachevars, polls, temp_files, workflow_id, session, files, request, response,
                   histvars>>

\* the entry the except branch creates when the id is not in the registry
RecreatedEntry(text) == [status |-> "error", percent |-> -1, error |-> text]

\* except Exception as e: mark the entry as failed, or create it
except_handler(j) ==
    /\ runner[j].pc = "except"
    /\ IF processing_results[j] # NoEntry
       THEN SetStatus(j, "error", "except_text")
       ELSE /\ processing_results' =
                  [processing_results EXCEPT ![j] = RecreatedEntry(runner[j].exc)]
            /\ terminal_writes' = [terminal_writes EXCEPT ![j] = @ + 1]
            /\ runner' = [runner EXCEPT ![j].pc = "done"]
    /\ UNCHANGED <<cachevars, polls, temp_files, workflow_id, session, files, request, response,
                   merged, delivered, observed>>

\* the second write of the except branch; a KeyError here ends the thread
except_error_text(j) ==
    /\ runner[j].pc = "except_text"
    /\ SetErrorText(j, runner[j].exc, "crashed")
    /\ UNCHANGED <<cachevars, polls, temp_files, workflow_id, session, files, request, response,
                   histvars>>

process_api_data(j, services) ==
    \/ progress_parsing(j)
    \/ extract_swagger(j, services)
    \/ unexpected_exception(j)
    \/ progress_landing(j)
    \/ scrape_landing_page(j, services)
    \/ load_agents(j, services)
    \/ save_processing_data_ok(j)
    \/ save_processing_data_fails(j)
    \/ mark_complete(j)
    \/ mark_error(j)
    \/ write_error_text(j)
    \/ except_handler(j)
    \/ except_error_text(j)

-----------------------------------------------------------------------------
(* GET /check_processing_status *)

\* the fields check_processing_status copies from the loaded payload
MergeProcessingData(sess, data) ==
    [sess EXCEPT
        !.swagger_info = data.swagger_info,
        !.landing_page_content = data.landing_page_content,
        !.document_links = data.document_links,
        !.address_data = data.address_data,
        !.processing_status = "complete",
        !.has_swagger_url = TRUE,
        !.swagger_url = data.swagger_url,
        !.landing_page_url = data.landing_page_url,
        !.agents_temp = [stored |-> TRUE, agents |-> data.agents]]

\* progress.get('percent', 25)
ProgressPercent(entry) ==
    IF entry.percent = -1 THEN DefaultPercent ELSE entry.percent

\* result.get('error', 'Unknown error')
ErrorMessage(entry) ==
    IF entry.error = Absent THEN "Unknown error" ELSE entry.error

\* "del processing_results[processing_id]" after a terminal state was read
Consume(registry, processing_id) ==
    [registry EXCEPT ![processing_id] = NoEntry]

\* the file is left in the temp directory after it was read
KeepLoadedFile(store, processing_id) == store

\* load_processing_data: "os.remove(temp_file)" once the payload is read
RemoveLoadedFile(store, processing_id) ==
    [store EXCEPT ![processing_id] = NoFile]

\* a stale id is answered with the message of a job that failed
ExpiredMessageAsFailure == "Unknown error"

\* the message for an id that is not in processing_results
ExpiredMessage == "Processing session expired. Please start over."

\* arg is the processing_id query parameter, 0 when it is missing
check_processing_status(arg) ==
    LET processing_id == IF arg # 0 THEN arg ELSE session.processing_id
        remembered == [session EXCEPT !.processing_id = processing_id]
        result == processing_results[processing_id]
    IN
    /\ request' = [handler |-> "check_processing_status", method |-> "GET",
                   processing_id |-> processing_id]
    /\ IF processing_id = 0
       THEN /\ response' = [kind |-> "json", status |-> "error",
                            message |-> "No processing ID found"]
            /\ UNCHANGED <<processing_results, temp_files, session, histvars>>
       ELSE IF result.status = "processing"
       THEN /\ response' = [kind |-> "json", status |-> "processing",
                            percent |-> ProgressPercent(result)]
            /\ session' = remembered
            /\ observed' = [observed EXCEPT ![processing_id] = ProgressPercent(result)]
            /\ UNCHANGED <<processing_results, temp_files, merged, delivered,
                           terminal_writes>>
       ELSE IF result.status = "complete" /\ temp_files[processing_id].stored
       THEN /\ response' = [kind |-> "json", status |-> "complete", message |-> ""]
            /\ session' = MergeProcessingData(remembered, temp_files[processing_id])
            /\ temp_files' = RemoveLoadedFile(temp_files, processing_id)
            /\ processing_results' = Consume(processing_results, processing_id)
            /\ merged' = merged \cup {processing_id}
            /\ delivered' = [delivered EXCEPT ![processing_id] = @ + 1]
            /\ UNCHANGED <<observed, terminal_writes>>
       ELSE IF result.status = "complete"
       THEN /\ response' = [kind |-> "json", status |-> "error",
                            message |-> "Failed to load processing data"]
            /\ session' = remembered
            /\ delivered' = [delivered EXCEPT ![processing_id] = @ + 1]
            /\ UNCHANGED <<processing_results, temp_files, merged, observed,
                           terminal_writes>>
       ELSE IF result.status = "error"
       THEN /\ response' = [kind |-> "json", status |-> "error",
                            message |-> ErrorMessage(result)]
            /\ session' = [remembered EXCEPT
                              !.processing_status = "error",
                              !.processing_error = ErrorMessage(result)]
            /\ processing_results' = Consume(processing_results, processing_id)
            /\ delivered' = [delivered EXCEPT ![processing_id] = @ + 1]
            /\ UNCHANGED <<temp_files, merged, observed, terminal_writes>>
       ELSE /\ response' = [kind |-> "json", status |-> "error",
                            message |-> ExpiredMessage]
            /\ session' = [remembered EXCEPT !.processing_id = 0]
            /\ UNCHANGED <<processing_results, temp_files, histvars>>
    /\ UNCHANGED <<cachevars, polls, runner, workflow_id, files>>

-----------------------------------------------------------------------------
(* GET /, GET /loading *)

\* index(): session.clear(); the durable files are found through
\* session['_id'], so the cleared session starts with an empty directory
index ==
    /\ session' = EmptySession
    /\ files' = EmptyFiles
    /\ request' = [handler |-> "index", method |-> "GET"]
    /\ response' = [kind |-> "redirect", target |-> "url", job |-> 0]
    /\ UNCHANGED <<cachevars, polls, jobvars, histvars>>

\* loading(): arg is the workflow_id query parameter, 0 when it is missing
loading(arg) ==
    /\ request' = [handler |-> "loading", method |-> "GET", workflow_id |-> arg]
    /\ response' = IF arg = 0
                   THEN [kind |-> "redirect", target |-> "url", job |-> 0]
                   ELSE [kind |-> "render", page |-> "loading", job |-> arg]
    /\ UNCHANGED <<cachevars, polls, jobvars, session, files, histvars>>

-----------------------------------------------------------------------------
(* session_utils.restore_all_data_from_files *)

\* "if sub_key not in session or not session.get(sub_key): session[sub_key] = value"
RestoreValue(current, stored) == IF Truthy(current) THEN current ELSE stored

RestoreCode(current, stored) == IF current \in {Absent, ""} THEN stored ELSE current

RestoreApiDetails(sess, data) ==
    IF ~data.stored THEN sess
    ELSE [sess EXCEPT
            !.title = RestoreValue(@, data.title),
            !.description = RestoreValue(@, data.description),
            !.keywords = RestoreValue(@, data.keywords),
            !.theme_codes = RestoreValue(@, data.theme_codes),
            !.access_rights_code = RestoreCode(@, data.access_rights_code),
            !.license_code = RestoreCode(@, data.license_code),
            !.selected_agency = RestoreValue(@, data.selected_agency)]

RestoreGeneratedContent(sess, data) ==
    IF ~data.stored THEN sess
    ELSE [sess EXCEPT
            !.generated_title = RestoreValue(@, data.generated_title),
            !.generated_description = RestoreValue(@, data.generated_description),
            !.generated_keywords = RestoreValue(@, data.generated_keywords),
            !.theme_codes = RestoreValue(@, data.theme_codes)]

Cardinal(f) == Cardinality(DOMAIN f)

\* the stored map replaces the session's map whenever a file exists
RestoreTranslationsAlways(sess, data) ==
    IF data # NoTranslations
    THEN [sess EXCEPT !.translations = data, !.translations_available = TRUE]
    ELSE sess

\* the stored map replaces the session's map whenever it has content
RestoreTranslationsWithContent(sess, data) ==
    IF data # NoTranslations /\ (HasContent(data) \/ sess.translations = NoTranslations)
    THEN [sess EXCEPT !.translations = data, !.translations_available = TRUE]
    ELSE sess

RestoreTranslations(sess, data) ==
    LET existing_translations == sess.translations
    IN  IF /\ data # NoTranslations
           /\ \/ existing_translations = NoTranslations
              \/ Cardinal(data) > Cardinal(existing_translations)
           /\ HasContent(data) \/ existing_translations = NoTranslations
        THEN [sess EXCEPT !.translations = data, !.translations_available = TRUE]
        ELSE sess

restore_all_data_from_files(sess, fls) ==
    RestoreTranslations(
        RestoreGeneratedContent(
            RestoreApiDetails(sess, fls.api_details),
            fls.generated_content),
        fls.translations)

-----------------------------------------------------------------------------
(* GET /ai: the metadata review step *)

\* full_description of ai(): the extracted description, the landing page
\* excerpt with its document links, the additional information
FullDescription(swagger_info, landing_page_content, document_links) ==
    swagger_info.description
    \o (IF Truthy(landing_page_content)
        THEN <<"--- Additional information ---">> \o landing_page_content
             \o (IF Truthy(document_links)
                 THEN <<"--- Document Links ---">> \o document_links ELSE <<>>)
        ELSE <<>>)
    \o swagger_info.additional_info

\* "b or a or c": the generated value before the saved one
GeneratedFirst(a, b, c) == Or2(Or2(b, a), c)

\* "a or b or c" of ai() and upload()
FirstNonEmpty(a, b, c) == Or2(Or2(a, b), c)

\* the agents of ai(): the snapshot the poll stored, else get_cached_agents()
AgentsForReview(agents_temp, cached) ==
    LET loaded == IF agents_temp.stored THEN agents_temp.agents ELSE {}
    IN  IF loaded = {} THEN cached ELSE loaded

\* the office detection block of ai(): the selection after it
SelectedAgencyAfterDetection(sess, agents) ==
    IF ~Truthy(sess.selected_agency)
    THEN LET detected_agency ==
                 DetectAgency(<<sess.swagger_url, sess.landing_page_url>>, agents)
         IN  IF Truthy(detected_agency) THEN detected_agency
             ELSE sess.selected_agency
    ELSE sess.selected_agency

\* cached is what get_cached_agents() returns during the request
ai(cached) ==
    /\ request' = [handler |-> "ai", method |-> "GET"]
    /\ IF ~session.has_swagger_url
       THEN /\ response' = [kind |-> "redirect", target |-> "url", job |-> 0]
            /\ UNCHANGED session
       ELSE IF session.processing_status # "complete"
       THEN /\ response' = [kind |-> "redirect", target |-> "loading", job |-> 0]
            /\ UNCHANGED session
       ELSE LET restored == restore_all_data_from_files(session, files)
                swagger_info == IF restored.swagger_info.error THEN NoSwaggerInfo
                                ELSE restored.swagger_info
                agents == AgentsForReview(restored.agents_temp, cached)
                selected_agency == SelectedAgencyAfterDetection(restored, agents)
            IN  /\ session' = [restored EXCEPT
                                  !.agents_temp.stored = FALSE,
                                  !.selected_agency = selected_agency]
                /\ response' =
                      [kind |-> "render", page |-> "ai",
                       title |-> FirstNonEmpty(restored.title,
                                               restored.generated_title,
                                               swagger_info.title),
                       description |-> FirstNonEmpty(
                                           restored.description,
                                           restored.generated_description,
                                           FullDescription(
                                               swagger_info,
                                               restored.landing_page_content,
                                               restored.document_links)),
                       keywords |-> FirstNonEmpty(restored.keywords,
                                                  restored.generated_keywords,
                                                  <<>>),
                       agents |-> agents,
                       selected_agency |-> selected_agency]
    /\ UNCHANGED <<cachevars, polls, jobvars, files, histvars>>

-----------------------------------------------------------------------------
(* POST /generate *)

\* what generate_api_description can return
GenerateOutcomes ==
    {[error |-> TRUE,  title |-> <<>>, description |-> <<>>, keywords |-> <<>>,
      theme_codes |-> <<>>],
     [error |-> FALSE, title |-> <<"g">>, description |-> <<>>,
      keywords |-> <<>>, theme_codes |-> <<"T1">>]}

generate(generated_content) ==
    /\ request' = [handler |-> "generate", method |-> "POST"]
    /\ IF ~Truthy(session.swagger_url) \/ generated_content.error
       THEN /\ response' = [kind |-> "json", error |-> TRUE]
            /\ UNCHANGED <<session, files>>
       ELSE /\ session' = [session EXCEPT
                              !.generated_title = generated_content.title,
                              !.generated_description = generated_content.description,
                              !.generated_keywords = generated_content.keywords,
                              !.theme_codes = generated_content.theme_codes]
            /\ files' = [files EXCEPT
                            !.generated_content =
                                [stored |-> TRUE,
                                 generated_title |-> generated_content.title,
                                 generated_description |-> generated_content.description,
                                 generated_keywords |-> generated_content.keywords,
                                 theme_codes |-> generated_content.theme_codes]]
            /\ response' = [kind |-> "json", error |-> FALSE]
    /\ UNCHANGED <<cachevars, polls, jobvars, histvars>>

-----------------------------------------------------------------------------
(* json_utils.generate_dcat_json: the fields the workflow decides *)

\* translations.get(lang, {}).get(field, '')
Field(translations, l, field) ==
    IF l \in DOMAIN translations THEN translations[l][field] ELSE <<>>

generate_dcat_json(translations, theme_codes, agency_id, swagger_url, landing_page_url, access_rights_code, license_code, document_links) ==
    [title        |-> [l \in Langs |-> Field(translations, l, "title")],
     description  |-> [l \in Langs |-> Field(translations, l, "description")],
     keywords     |-> [l \in Langs |-> Field(translations, l, "keywords")],
     publisher    |-> agency_id,
     themeCodes   |-> theme_codes,
     accessRights |-> access_rights_code,
     license      |-> license_code,
     endpointUrl  |-> swagger_url,
     landingPage  |-> landing_page_url,
     documents    |-> document_links]

\* session.get('access_rights_code', 'PUBLIC')
AccessRights(sess) ==
    IF sess.access_rights_code = Absent THEN "PUBLIC" ELSE sess.access_rights_code

-----------------------------------------------------------------------------
(* GET /upload: the review-for-submission step *)

\* a structure is seeded even when there is no title and no description
ReconcileTranslationsAlwaysSeeds(sess, fls) ==
    LET title == FirstNonEmpty(sess.title, sess.generated_title,
                               fls.api_details.title)
        description == FirstNonEmpty(sess.description, sess.generated_description,
                                     fls.api_details.description)
        keywords == FirstNonEmpty(sess.keywords, sess.generated_keywords,
                                  fls.api_details.keywords)
    IN  IF HasContent(fls.translations)
        THEN [source |-> "file", translations |-> fls.translations]
        ELSE IF HasContent(sess.translations)
        THEN [source |-> "session", translations |-> sess.translations]
        ELSE [source |-> "synthesized",
              translations |-> SeededTranslations(title, description, keywords)]

\* the translations upload() settles on, and where they came from:
\* the file, else the session under the same test, else a structure seeded
\* from title/description/keywords, else nothing
ReconcileTranslations(sess, fls) ==
    LET from_file == fls.translations
        title == FirstNonEmpty(sess.title, sess.generated_title,
                               fls.api_details.title)
        description == FirstNonEmpty(sess.description, sess.generated_description,
                                     fls.api_details.description)
        keywords == FirstNonEmpty(sess.keywords, sess.generated_keywords,
                                  fls.api_details.keywords)
    IN  IF HasContent(from_file)
        THEN [source |-> "file", translations |-> from_file]
        ELSE IF HasContent(sess.translations)
        THEN [source |-> "session", translations |-> sess.translations]
        ELSE IF Truthy(title) \/ Truthy(description)
        THEN [source |-> "synthesized",
              translations |-> SeededTranslations(title, description, keywords)]
        ELSE [source |-> "none", translations |-> from_file]

\* the responses of GET /agent/<id> that upload() can get: <<>> when the
\* request fails or the answer has no identifier
AgencyLookups == {<<>>, <<"CH_", "BAFU", "-identifier">>}

\* the session is left without a copy of the translations
ForgetTranslations(sess, translations) ==
    [sess EXCEPT !.translations = NoTranslations, !.translations_available = TRUE]

\* session['translations'] = translations; session['translations_available'] = True
StoreTranslations(sess, translations) ==
    [sess EXCEPT !.translations = translations, !.translations_available = TRUE]

\* a synthesized structure is not saved to the session file
PersistNothing(fls, reconciled) == fls

\* save_to_session_file('translations', translations) of the synthesis branch
PersistSynthesized(fls, reconciled) ==
    IF reconciled.source = "synthesized"
    THEN [fls EXCEPT !.translations = reconciled.translations]
    ELSE fls

\* request.after names the handler that served the request before this one
upload(agency_identifier) ==
    /\ request' = [handler |-> "upload", method |-> "GET",
                   after |-> request.handler]
    /\ IF ~session.has_swagger_url
       THEN /\ response' = [kind |-> "redirect", target |-> "url", job |-> 0]
            /\ UNCHANGED <<session, files>>
       ELSE LET restored == restore_all_data_from_files(session, files)
                reconciled == ReconcileTranslations(restored, files)
                translations == reconciled.translations
                publisher_identifier ==
                    IF Truthy(restored.selected_agency) /\ Truthy(agency_identifier)
                    THEN agency_identifier ELSE restored.selected_agency
                json_data == generate_dcat_json(
                                 translations, restored.theme_codes,
                                 publisher_identifier, restored.swagger_url,
                                 restored.landing_page_url, AccessRights(restored),
                                 restored.license_code, restored.document_links)
            IN  IF reconciled.source = "none"
                THEN /\ response' = [kind |-> "redirect", target |-> "ai", job |-> 0]
                     /\ session' = restored
                     /\ UNCHANGED files
                ELSE /\ files' = PersistSynthesized(files, reconciled)
                     /\ session' = StoreTranslations(restored, translations)
                     /\ response' = [kind |-> "render", page |-> "upload",
                                     source |-> reconciled.source,
                                     translations |-> translations,
                                     json_data |-> json_data]
    /\ UNCHANGED <<cachevars, polls, jobvars, histvars>>

-----------------------------------------------------------------------------
(* POST /save_api_details *)

\* the translations of the session take the place of the empty entries
KeepStoredTranslations(translations) ==
    [l \in Langs |->
        IF l # "en" /\ l \in DOMAIN session.translations
        THEN session.translations[l] ELSE translations[l]]

\* "from utils.deepl_utils import translate_to_language" raises ImportError,
\* which the handler catches: the structure stays as it was built
AutoTranslate(translations) == translations

\* form: the fields of the AI form as the browser sends them; keywords is
\* the comma-separated string as the sequence of its segments.
\* utils.deepl_utils defines no translate_to_language, so the import in the
\* handler raises ImportError and de, fr and it stay empty.
save_api_details(form) ==
    /\ request' = [handler |-> "save_api_details", method |-> "POST", form |-> form]
    /\ response' = [kind |-> "redirect", target |-> "upload", job |-> 0]
    /\ IF ~form.is_ai_form
       THEN UNCHANGED <<session, files>>
       ELSE LET title == Strip(form.title)
                description == Strip(form.description)
                keywords == SplitKeywords(form.keywords)
                translations ==
                    AutoTranslate(SeededTranslations(title, description, keywords))
                api_details ==
                    [stored |-> TRUE, title |-> title, description |-> description,
                     keywords |-> keywords, theme_codes |-> form.theme_codes,
                     access_rights_code |-> form.access_rights_code,
                     license_code |-> form.license_code,
                     selected_agency |-> form.agency]
                generated_data ==
                    [stored |-> TRUE,
                     generated_title |-> session.generated_title,
                     generated_description |-> session.generated_description,
                     generated_keywords |-> session.generated_keywords,
                     theme_codes |-> form.theme_codes]
            IN  /\ session' = [session EXCEPT
                                  !.title = title,
                                  !.description = description,
                                  !.keywords = keywords,
                                  !.theme_codes = form.theme_codes,
                                  !.access_rights_code = form.access_rights_code,
                                  !.license_code = form.license_code,
                                  !.selected_agency = form.agency,
                                  !.translations = translations,
                                  !.translations_available = TRUE]
                /\ files' = [files EXCEPT
                                !.api_details = api_details,
                                !.generated_content =
                                    IF Truthy(session.generated_title)
                                       \/ Truthy(session.generated_description)
                                    THEN generated_data ELSE @,
                                !.translations = translations]
    /\ UNCHANGED <<cachevars, polls, jobvars, histvars>>

-----------------------------------------------------------------------------
(* POST /autosave_review *)

\* the entry autosave_review stores for one language of the form
ReviewedEntry(fields) ==
    Entry(fields.title, fields.description, SplitKeywords(fields.keywords))

\* form: per language the title, description and keywords string of the
\* review form.  translations['en'] raises KeyError when neither tier
\* holds a translations map: the request ends as an internal server error.
autosave_review(form) ==
    LET stored == IF files.translations # NoTranslations THEN files.translations
                  ELSE session.translations
        translations == [l \in Langs |-> ReviewedEntry(form[l])]
    IN
    /\ request' = [handler |-> "autosave_review", method |-> "POST", form |-> form]
    /\ IF stored = NoTranslations
       THEN /\ response' = [kind |-> "error", status |-> 500, exc |-> "KeyError"]
            /\ UNCHANGED <<session, files>>
       ELSE /\ session' = [session EXCEPT
                              !.translations = translations,
                              !.document_links = <<>>]
            /\ files' = [files EXCEPT !.translations = translations]
            /\ response' = [kind |-> "json", success |-> TRUE]
    /\ UNCHANGED <<cachevars, polls, jobvars, histvars>>

-----------------------------------------------------------------------------
(* POST /submit_to_i14y *)

\* The token of the JSON body: the key is missing, or its value is a string,
\* here the sequence of its words and blanks.
NoToken == [present |-> FALSE, value |-> <<>>]
Token(value) == [present |-> TRUE, value |-> value]

\* the tokens of the review requests: none, a bare key, a bearer token
Tokens == {NoToken, Token(<<"abc">>), Token(<<"Bearer", " ", "abc">>)}

\* the tokens a user can paste: also empty, in lower case, with a blank in
\* front, the scheme without a key
TypedTokens ==
    Tokens \cup {Token(<<>>), Token(<<"bearer", " ", "abc">>),
                 Token(<<" ", "Bearer", " ", "abc">>), Token(<<"Bearer", " ">>)}

\* token.strip().lower().startswith('bearer ')
IsBearer(token) ==
    LET stripped == Lower(Strip(token.value))
    IN  Len(stripped) >= 2 /\ stripped[1] = "bearer" /\ stripped[2] = " "

\* What requests.post can do: raise Timeout or ConnectionError, or return a
\* response with a status code and a body; the body is text that is not
\* JSON, or a JSON object with or without a message.
NoBody   == [json |-> FALSE, message |-> "", text |-> ""]
TextBody == [json |-> FALSE, message |-> "", text |-> "<html>"]
JsonBodies == {[json |-> TRUE, message |-> m, text |-> ""] : m \in {"", "m"}}

ApiAnswers ==
    {[raised |-> e, status_code |-> "", body |-> NoBody] :
        e \in {"Timeout", "ConnectionError"}}
    \cup {[raised |-> "", status_code |-> c, body |-> b] :
            c \in {"200", "400", "401", "403", "422", "500"},
            b \in JsonBodies \cup {TextBody}}

\* error_data.get('message') or error_data.get('error') or default
ErrorMsg(body, default) == IF body.message # "" THEN body.message ELSE default

\* the value a branch of submit_data_to_i14y_api returns for a failure
Failure(error, full_error) ==
    [success |-> FALSE, error |-> error, full_error |-> full_error]

\* submit_data_to_i14y_api(json_data, token): the returned dict for what
\* requests.post did; an error text is the sequence of its parts
submit_data_to_i14y_api(answer) ==
    LET code == answer.status_code
        body == answer.body
    IN  IF answer.raised = "Timeout"
        THEN Failure(<<"Request timed out. The I14Y Partner API may be temporarily unavailable.">>, NoBody)
        ELSE IF answer.raised = "ConnectionError"
        THEN Failure(<<"Connection error. Please check your internet connection and try again.">>, NoBody)
        ELSE IF code \in {"200", "201"}
        THEN [success |-> TRUE, error |-> <<>>, full_error |-> NoBody]
        ELSE IF code = "401"
        THEN Failure(<<"Authentication failed. Please check your access token.">>, NoBody)
        ELSE IF code = "403"
        THEN Failure(<<"Access forbidden. You may not have permission to submit data.">>, NoBody)
        ELSE IF code = "422"
        THEN IF body.json
             THEN Failure(<<"Data validation failed (Partner API): ",
                            ErrorMsg(body, "Validation failed")>>, body)
             ELSE Failure(<<"Data validation failed (422): ", body.text>>, NoBody)
        ELSE IF body.json
        THEN Failure(<<"Partner API error: ",
                       ErrorMsg(body, IF code = "400" THEN "Bad request"
                                      ELSE "HTTP " \o code)>>, body)
        ELSE Failure(<<"API error (HTTP ", code, "): ", body.text>>, NoBody)

\* the answers of the catalog API in the review requests: accepted, timed out
SubmissionOutcomes ==
    {[raised |-> "", status_code |-> "200", body |-> TextBody],
     [raised |-> "Timeout", status_code |-> "", body |-> NoBody]}

\* the request is sent again when it has failed
ApiCallsWithRetry(i14y_response) == IF i14y_response.success THEN 1 ELSE 2

\* the calls of requests.post that one call of submit_data_to_i14y_api makes
ApiCalls(i14y_response) == 1

submit_to_i14y(token, answer) ==
    LET restored == restore_all_data_from_files(session, files)
        translations == restored.translations
        selected_agency == restored.selected_agency
        json_data == generate_dcat_json(
                         translations, restored.theme_codes, selected_agency,
                         restored.swagger_url, restored.landing_page_url,
                         AccessRights(restored), restored.license_code,
                         restored.document_links)
        i14y_response == submit_data_to_i14y_api(answer)
        refused(error) == [kind |-> "json", success |-> FALSE, error |-> <<error>>,
                           full_error |-> NoBody, api_calls |-> 0,
                           json_data |-> <<>>]
    IN
    /\ request' = [handler |-> "submit_to_i14y", method |-> "POST", token |-> token]
    /\ session' = restored
    /\ response' =
          IF ~token.present THEN refused("No access token provided.")
          ELSE IF ~IsBearer(token) THEN refused("Invalid token format.")
          ELSE IF translations = NoTranslations THEN refused("No translations found.")
          ELSE IF ~Truthy(selected_agency) THEN refused("No publisher selected.")
          ELSE [kind |-> "json", success |-> i14y_response.success,
                error |-> i14y_response.error,
                full_error |-> i14y_response.full_error,
                api_calls |-> ApiCalls(i14y_response), json_data |-> json_data]
    /\ UNCHANGED <<cachevars, polls, jobvars, files, histvars>>

-----------------------------------------------------------------------------
(* The publisher directory and its two caches: app.get_cached_agents over
   utils.i14y_utils.get_agents *)

\* agents_cache before the first call: data None, timestamp None
NoAgentsCache == [has_data |-> FALSE, data |-> {}, fresh |-> FALSE]

\* cache/agents_cache.pkl does not exist
NoAgentsCacheFile == [stored |-> FALSE, data |-> {}, fresh |-> FALSE]

\* the directories the catalog API answers with when it answers
FetchedDirectories == {{<<"CH_", "BAFU">>}, {<<"CH_", "BAFU">>, <<"CH_", "BFS">>}}

\* requests.get(.../api/Agent) with raise_for_status(): a directory, or an
\* exception
FetchFailed == [ok |-> FALSE, agents |-> {}]
FetchOutcomes ==
    {FetchFailed} \cup {[ok |-> TRUE, agents |-> agents] : agents \in FetchedDirectories}

\* _save_agents_to_cache: the dump succeeds, or it fails and is only logged
SaveOutcomes == {"written", "failed"}

\* _load_agents_from_cache(ignore_expiry); None reads like the empty list in
\* the tests "if cached_agents" and "if expired_cache"
LoadAgentsFromCache(file, ignore_expiry) ==
    IF file.stored /\ (ignore_expiry \/ file.fresh) THEN file.data ELSE {}

\* _save_agents_to_cache(agents_data)
SaveAgentsToCache(file, agents_data, saved) ==
    IF saved = "written"
    THEN [stored |-> TRUE, data |-> agents_data, fresh |-> TRUE]
    ELSE file

\* get_agents(fetch_details=False): the list it returns and the cache file
\* it leaves.  It catches every exception, so it never raises.
get_agents(file, fetched, saved) ==
    LET cached_agents == LoadAgentsFromCache(file, FALSE)
        expired_cache == LoadAgentsFromCache(file, TRUE)
    IN  IF cached_agents # {}
        THEN [agents |-> cached_agents, file |-> file, refresh |-> "none"]
        ELSE IF fetched.ok
        THEN [agents |-> fetched.agents,
              file |-> SaveAgentsToCache(file, fetched.agents, saved),
              refresh |-> "fetched"]
        ELSE [agents |-> expired_cache, file |-> file, refresh |-> "failed"]

\* One call of get_cached_agents(); fetched and saved are what the catalog
\* API and the cache file do if the call gets to them.  The except branch of
\* get_cached_agents is never taken, because get_agents does not raise.
get_cached_agents(fetched, saved) ==
    LET valid == agents_cache.has_data /\ agents_cache.fresh
        got == get_agents(agents_cache_file, fetched, saved)
    IN
    /\ request' = [handler |-> "get_cached_agents", method |-> "",
                   valid |-> valid, refresh |-> IF valid THEN "none" ELSE got.refresh]
    /\ IF valid
       THEN /\ response' = [kind |-> "agents", agents |-> agents_cache.data]
            /\ UNCHANGED cachevars
       ELSE /\ response' = [kind |-> "agents", agents |-> got.agents]
            /\ agents_cache' = [has_data |-> TRUE, data |-> got.agents, fresh |-> TRUE]
            /\ agents_cache_file' = got.file
            /\ obtained' = IF got.refresh = "fetched" THEN obtained \cup {fetched.agents}
                           ELSE obtained
    /\ UNCHANGED <<polls, jobvars, session, files, histvars>>

\* cache_duration (one hour) has passed since agents_cache['timestamp']
agents_cache_expires ==
    /\ agents_cache.fresh
    /\ agents_cache' = [agents_cache EXCEPT !.fresh = FALSE]
    /\ UNCHANGED <<polls, jobvars, session, files, request, response, histvars,
                   agents_cache_file, obtained>>

\* CACHE_EXPIRY (24 hours) has passed since the cache file was written
agents_cache_file_expires ==
    /\ agents_cache_file.fresh
    /\ agents_cache_file' = [agents_cache_file EXCEPT !.fresh = FALSE]
    /\ UNCHANGED <<polls, jobvars, session, files, request, response, histvars,
                   agents_cache, obtained>>

-----------------------------------------------------------------------------
(* The job flow: step-1 submissions, their runner threads and the polls *)

UrlBafu    == <<"https://", "bafu", ".admin.ch", "/api/x">>
UrlLanding == <<"https://", "www", ".example.com">>

\* the (swagger_url, landing_page_url) pairs of the step-1 form
SubmittedUrls == {<< <<>>, <<>> >>, <<UrlBafu, UrlLanding>>}

Init ==
    /\ processing_results = [j \in JobIds |-> NoEntry]
    /\ temp_files = [j \in JobIds |-> NoFile]
    /\ runner = [j \in JobIds |-> IdleRunner]
    /\ workflow_id = 0
    /\ session = EmptySession
    /\ files = EmptyFiles
    /\ request = [handler |-> "none", method |-> ""]
    /\ response = [kind |-> "none"]
    /\ merged = {}
    /\ delivered = [j \in JobIds |-> 0]
    /\ observed = [j \in JobIds |-> 0]
    /\ terminal_writes = [j \in JobIds |-> 0]
    /\ agents_cache = NoAgentsCache
    /\ agents_cache_file = NoAgentsCacheFile
    /\ obtained = {}
    /\ polls = [t \in PollThreads |-> IdlePoll]

\* One browser session submits step 1 up to MaxJobs times; the runner
\* threads, the polls and the page requests interleave freely.
Next ==
    \/ \E urls \in SubmittedUrls : url_post(urls[1], urls[2])
    \/ \E j \in JobIds : process_api_data(j, Dependable)
    \/ \E arg \in 0..workflow_id : check_processing_status(arg)
    \/ \E cached \in Dependable.directories : ai(cached)

Spec == Init /\ [][Next]_vars

-----------------------------------------------------------------------------
(* Properties of the job flow *)

\* C1: once a poll has answered with the terminal state of a job, the job is
\* gone from the registry for good: no later poll of the same id answers with
\* a terminal state again, so each job delivers at most one terminal answer.
C1_TerminalDeliveredOnce ==
    \A j \in JobIds : delivered[j] <= 1

\* C2: the metadata review page (/ai) is rendered only for a workflow whose
\* own job, the one its latest step-1 submission launched, has completed and
\* has been merged into the session by a poll.
C2_ReviewOnlyAfterOwnJobMerged ==
    (request.handler = "ai" /\ response.kind = "render")
        => workflow_id \in merged

\* C4: a step-1 submission with an empty swagger_url creates no registry
\* entry and starts no runner thread, so no thread ever holds an empty URL.
C4_NoJobForEmptyUrl ==
    \A j \in JobIds : runner[j].pc # "idle" => Truthy(runner[j].swagger_url)

\* C6: the percent that successive polls of one job report never decreases.
C6_ProgressMonotone ==
    [][\A j \in JobIds : observed'[j] >= observed[j]]_vars

\* a job polled at its last progress snapshot and then at its terminal state
C6_Witness ==
    \E j \in JobIds : observed[j] = FinalPercent /\ delivered[j] = 1

\* C7: the runner writes a terminal state of a job at most once.
C7_TerminalWrittenOnce ==
    \A j \in JobIds : terminal_writes[j] <= 1

-----------------------------------------------------------------------------
(* The review steps: the handlers that reconcile the two tiers, started from
   every combination of tier contents *)

\* the state of the jobs once the first job has been merged by a poll
AfterFirstJob ==
    /\ processing_results = [j \in JobIds |-> NoEntry]
    /\ temp_files = [j \in JobIds |-> NoFile]
    /\ runner = [j \in JobIds |-> IF j = 1
                                  THEN [IdleRunner EXCEPT
                                           !.pc = "done",
                                           !.swagger_url = UrlBafu,
                                           !.landing_page_url = UrlLanding,
                                           !.swagger_info = SwaggerParsed,
                                           !.scraped = TRUE,
                                           !.landing_page_content = <<"a">>,
                                           !.document_links = <<"doc">>,
                                           !.address_data = <<"address">>,
                                           !.calls = [extract_swagger_info |-> 1,
                                                      extract_web_content |-> 1,
                                                      get_cached_agents |-> 1,
                                                      save_processing_data |-> 1],
                                           !.agents = {<<"CH_", "BAFU">>}]
                                  ELSE IdleRunner]
    /\ workflow_id = 1
    /\ merged = {1}
    /\ delivered = [j \in JobIds |-> IF j = 1 THEN 1 ELSE 0]
    /\ observed = [j \in JobIds |-> 0]
    /\ terminal_writes = [j \in JobIds |-> IF j = 1 THEN 1 ELSE 0]
    /\ agents_cache = NoAgentsCache
    /\ agents_cache_file = NoAgentsCacheFile
    /\ obtained = {}
    /\ polls = [t \in PollThreads |-> IdlePoll]

\* the session as the poll leaves it when it merges that job
MergedSession ==
    MergeProcessingData([EmptySession EXCEPT !.processing_id = 1],
                        ProcessingData([IdleRunner EXCEPT
                                           !.swagger_url = UrlBafu,
                                           !.landing_page_url = UrlLanding,
                                           !.swagger_info = SwaggerParsed,
                                           !.landing_page_content = <<"a">>,
                                           !.document_links = <<"doc">>,
                                           !.address_data = <<"address">>,
                                           !.agents = {<<"CH_", "BAFU">>}]))

\* a translations map of one tier: none, all four languages blank
\* (unusable), only German filled (English blank), English filled (usable)
BlankTranslations   == [l \in Langs |-> EmptyEntry]
GermanTranslations  == [l \in Langs |-> IF l = "de" THEN Entry(<<"d">>, <<>>, <<>>)
                                         ELSE EmptyEntry]
EnglishTranslations == SeededTranslations(<<"a">>, <<>>, <<"a">>)

TierTranslations ==
    {NoTranslations, BlankTranslations, GermanTranslations, EnglishTranslations}

\* api_details.json as save_api_details wrote it for a title and a publisher
ApiDetailsFile(title, agency) ==
    [stored |-> TRUE, title |-> title, description |-> <<>>, keywords |-> <<>>,
     theme_codes |-> <<>>, access_rights_code |-> "PUBLIC", license_code |-> "",
     selected_agency |-> agency]

\* the AI form: title and keywords as typed, the publisher chosen
AiForm(title, keywords, agency) ==
    [is_ai_form |-> TRUE, title |-> title, description |-> <<>>,
     keywords |-> keywords, theme_codes |-> <<>>,
     access_rights_code |-> "PUBLIC", license_code |-> "", agency |-> agency]

\* the keywords field " a," : two segments, one of them blank
TypedKeywords == << <<" ", "a">>, <<>> >>

ReviewAiForms ==
    {AiForm(title, TypedKeywords, agency) :
        title \in StrsUpTo(MaxLen), agency \in {<<>>, <<"CH_", "BAFU">>}}

\* a review form with the given English and German titles
ReviewForm(title_en, title_de) ==
    [l \in Langs |->
        [title |-> IF l = "en" THEN title_en ELSE IF l = "de" THEN title_de ELSE <<>>,
         description |-> <<>>, keywords |-> << <<>> >>]]

ReviewForms ==
    {ReviewForm(title_en, title_de) :
        title_en \in StrsUpTo(MaxLen), title_de \in {<<>>, <<"d">>}}

InitReview ==
    /\ AfterFirstJob
    /\ \E session_translations \in TierTranslations,
          title \in {<<>>, <<"a">>},
          generated_title \in {<<>>, <<"g">>},
          agency \in {<<>>, <<"CH_", "BAFU">>} :
          session = [MergedSession EXCEPT
                        !.translations = session_translations,
                        !.title = title,
                        !.generated_title = generated_title,
                        !.selected_agency = agency]
    /\ \E file_translations \in TierTranslations,
          api_details \in {NoApiDetails, ApiDetailsFile(<<"a">>, <<"CH_", "BAFU">>)} :
          files = [EmptyFiles EXCEPT
                      !.translations = file_translations,
                      !.api_details = api_details]
    /\ request = [handler |-> "none", method |-> ""]
    /\ response = [kind |-> "none"]

NextReview ==
    \/ \E form \in ReviewAiForms : save_api_details(form)
    \/ \E agency_identifier \in AgencyLookups : upload(agency_identifier)
    \/ \E form \in ReviewForms : autosave_review(form)
    \/ \E token \in Tokens, i14y_response \in SubmissionOutcomes :
          submit_to_i14y(token, i14y_response)

SpecReview == InitReview /\ [][NextReview]_vars

-----------------------------------------------------------------------------
(* Properties of the review steps *)

\* translations.get('en', {}) has a title or a description
EnglishFilled(translations) ==
    Truthy(Field(translations, "en", "title"))
        \/ Truthy(Field(translations, "en", "description"))

\* C3: /upload never goes on with a translations map whose English entry has
\* neither title nor description: whatever it renders has English content.
C3_EmptyEnglishNotAccepted ==
    (request.handler = "upload" /\ response.kind = "render")
        => EnglishFilled(response.translations)

\* C5: submit_to_i14y calls the submission API only when the English entry has
\* a title or a description and a publisher is selected.
C5_SubmitNeedsEnglishAndPublisher ==
    (request.handler = "submit_to_i14y" /\ response.api_calls = 1)
        => EnglishFilled(session.translations) /\ Truthy(session.selected_agency)

\* C8: a second /upload pass right after a first one, with no request in
\* between, ends the same way and settles on the same translations.
C8_UploadIdempotent ==
    [][(request.handler = "upload" /\ request'.handler = "upload")
          => /\ response'.kind = response.kind
             /\ session'.translations = session.translations
             /\ response.kind = "render"
                   => response'.translations = response.translations]_vars

\* a second pass in a row that rendered the page
C8_Witness ==
    /\ request.handler = "upload"
    /\ request.after = "upload"
    /\ response.kind = "render"

\* C9: after save_api_details and after autosave_review both tiers hold what
\* the form submitted (titles up to surrounding blanks, keywords as the list
\* the field splits into), empty values included, whatever they held before.
C9_SubmittedValuesWin ==
    /\ (request.handler = "save_api_details" /\ request.form.is_ai_form)
          => /\ Strip(session.title) = Strip(request.form.title)
             /\ Strip(session.description) = Strip(request.form.description)
             /\ session.keywords = SplitKeywords(request.form.keywords)
             /\ session.theme_codes = request.form.theme_codes
             /\ session.access_rights_code = request.form.access_rights_code
             /\ session.license_code = request.form.license_code
             /\ session.selected_agency = request.form.agency
             /\ files.api_details.title = session.title
             /\ files.api_details.selected_agency = session.selected_agency
    /\ request.handler = "autosave_review"
          => \A l \in Langs :
                /\ Field(session.translations, l, "title") = request.form[l].title
                /\ Field(session.translations, l, "description")
                      = request.form[l].description
                /\ Field(session.translations, l, "keywords")
                      = SplitKeywords(request.form[l].keywords)
                /\ Field(files.translations, l, "title") = request.form[l].title

-----------------------------------------------------------------------------
(* The metadata review step: /ai and the requests around it, started from
   every combination of URLs, publisher directory and earlier selection *)

UrlBafuUpper   == <<"https://", "BAFU", ".admin.ch">>
UrlBfs         == <<"http://", "bfs", ".admin.ch", "/api/x">>
UrlFtp         == <<"ftp://", "bafu", ".admin.ch">>
UrlSubdomain   == <<"https://", "www", ".", "bafu", ".admin.ch">>
UrlUpperSuffix == <<"https://", "bafu", ".ADMIN.CH">>

DetectionUrls ==
    {<<>>, UrlBafu, UrlBafuUpper, UrlBfs, UrlLanding, UrlFtp, UrlSubdomain,
     UrlUpperSuffix}

\* publisher directories: empty, one office, the same office with a
\* lower-case id, two offices
DetectionDirectories ==
    {{}, {<<"CH_", "BAFU">>}, {<<"ch_", "bafu">>},
     {<<"CH_", "BAFU">>, <<"CH_", "BFS">>}}

InitMetadata ==
    /\ AfterFirstJob
    /\ \E swagger_url \in DetectionUrls, landing_page_url \in DetectionUrls,
          selected_agency \in {<<>>, <<"CH_", "BFS">>},
          agents \in DetectionDirectories :
          session = [MergedSession EXCEPT
                        !.swagger_url = swagger_url,
                        !.landing_page_url = landing_page_url,
                        !.selected_agency = selected_agency,
                        !.agents_temp = [stored |-> TRUE, agents |-> agents]]
    /\ \E api_details \in {NoApiDetails, ApiDetailsFile(<<>>, <<"CH_", "BFS">>)} :
          files = [EmptyFiles EXCEPT !.api_details = api_details]
    /\ request = [handler |-> "none", method |-> ""]
    /\ response = [kind |-> "none"]

NextMetadata ==
    \/ \E cached \in DetectionDirectories : ai(cached)
    \/ \E generated_content \in GenerateOutcomes : generate(generated_content)
    \/ \E arg \in 0..workflow_id : loading(arg)
    \/ index

SpecMetadata == InitMetadata /\ [][NextMetadata]_vars

\* the first DNS label of an http(s) URL when ".admin.ch" follows it; "" else
OfficeLabel(url) ==
    IF /\ Len(url) >= 3
       /\ url[1] \in {"https://", "http://"}
       /\ url[3] = ".admin.ch"
    THEN url[2] ELSE ""

\* the label names an office of the directory, whatever the case of either
NamesOffice(label, agents) ==
    /\ label # ""
    /\ \E agent \in agents : Lower(agent) = <<"ch_", LowerTok(label)>>

\* the identifier the detection is to give for the URLs in their order
ExpectedOffice(urls, agents) ==
    LET naming == {i \in 1..Len(urls) : NamesOffice(OfficeLabel(urls[i]), agents)}
    IN  IF naming = {} THEN <<>>
        ELSE <<"CH_", UpperTok(OfficeLabel(urls[Min(naming)]))>>

\* the publisher either tier holds before the request
EarlierSelection ==
    IF Truthy(session.selected_agency) THEN session.selected_agency
    ELSE IF files.api_details.stored THEN files.api_details.selected_agency
    ELSE <<>>

\* C10: when /ai renders and no publisher was selected before, the selection
\* becomes CH_ + the upper-cased label of the first of swagger_url and
\* landing_page_url whose label before .admin.ch names an office of the
\* directory, and stays unset when neither does; an earlier selection is kept.
C10_PublisherDetection ==
    [][(request'.handler = "ai" /\ response'.kind = "render")
          => session'.selected_agency =
                IF Truthy(EarlierSelection) THEN EarlierSelection
                ELSE ExpectedOffice(<<session.swagger_url, session.landing_page_url>>,
                                    response'.agents)]_vars

\* the swagger URL names no office and the landing page names one
C10_Witness ==
    /\ request.handler = "ai"
    /\ response.kind = "render"
    /\ session.swagger_url = UrlSubdomain
    /\ session.landing_page_url = UrlBafuUpper
    /\ response.agents = {<<"ch_", "bafu">>}
    /\ session.selected_agency = <<"CH_", "BAFU">>

-----------------------------------------------------------------------------
(* The pipeline of one job whose collaborators can fail: one step-1
   submission, its runner thread, the polls and the pages that wait for it *)

\* a landing page field that holds only a blank
BlankUrl == <<" ">>

\* the landing_page_url values of the step-1 form
LandingUrls == {<<>>, BlankUrl, UrlLanding}

\* the first submission of a browser session
first_url_post(swagger_url, landing_page_url) ==
    /\ workflow_id = 0
    /\ url_post(swagger_url, landing_page_url)

\* The server process is restarted: the registry and agents_cache are
\* module-level dicts and the runners are daemon threads, so all are lost;
\* the temp files, the cache file, the session cookie and the session files
\* outlive the process.
restart ==
    /\ \/ \E j \in JobIds : processing_results[j] # NoEntry
       \/ agents_cache # NoAgentsCache
    /\ processing_results' = [j \in JobIds |-> NoEntry]
    /\ agents_cache' = NoAgentsCache
    /\ runner' = [j \in JobIds |->
                     IF runner[j].pc \in {"idle", "done", "crashed"} THEN runner[j]
                     ELSE [runner[j] EXCEPT !.pc = "killed"]]
    /\ UNCHANGED <<polls, temp_files, workflow_id, session, files, request, response,
                   histvars, agents_cache_file, obtained>>

NextPipeline ==
    \/ \E landing_page_url \in LandingUrls : first_url_post(UrlBafu, landing_page_url)
    \/ \E j \in JobIds : process_api_data(j, Unreliable)
    \/ \E arg \in 0..MaxJobs : check_processing_status(arg)
    \/ restart
    \/ \E cached \in Directories : ai(cached)
    \/ \E arg \in 0..workflow_id : loading(arg)

SpecPipeline == Init /\ [][NextPipeline]_vars

-----------------------------------------------------------------------------
(* Properties of the pipeline *)

\* "not (landing_page_url and landing_page_url.strip())"
NoLandingPage(url) == Strip(url) = <<>>

\* C11: a job whose landing page URL is empty or blank never calls the page
\* scraper, passes the landing step without raising (unless the process is
\* restarted under it), and the result it saves
\* has no document links, no landing page content and no address data.
C11_EmptyLandingSkipsScraper ==
    [][\A j \in JobIds :
          (runner[j].pc # "idle" /\ NoLandingPage(runner[j].landing_page_url))
             => /\ runner'[j].calls.extract_web_content = 0
                /\ (runner[j].pc = "scrape" /\ runner'[j].pc \notin {"scrape", "killed"})
                      => runner'[j].pc = "agents"
                /\ temp_files'[j].stored
                      => /\ temp_files'[j].document_links = <<>>
                         /\ temp_files'[j].landing_page_content = <<>>
                         /\ temp_files'[j].address_data = <<>>]_vars

\* a job with a blank landing page URL has completed and saved its result
C11_Witness ==
    \E j \in JobIds :
        /\ runner[j].landing_page_url = BlankUrl
        /\ processing_results[j].status = "complete"
        /\ temp_files[j].stored
        /\ temp_files[j].document_links = <<>>

\* C12: a job whose specification could not be fetched never reaches the
\* status complete, and the metadata review page is never rendered from a
\* session whose swagger_info is the error of the fetch.
C12_FetchFailureBlocksReview ==
    /\ \A j \in JobIds :
          runner[j].swagger_info.error => processing_results[j].status # "complete"
    /\ (request.handler = "ai" /\ response.kind = "render")
          => ~session.swagger_info.error

-----------------------------------------------------------------------------
(* Properties of going back and forward between the review steps *)

\* C13: when /upload renders right after the AI form was saved, its English
\* entry is what the form submitted: the stripped title and description and
\* the keywords the field splits into, whatever the tiers held before.
C13_EditsVisibleForward ==
    [][(/\ request.handler = "save_api_details"
        /\ request.form.is_ai_form
        /\ request'.handler = "upload"
        /\ response'.kind = "render")
          => response'.translations["en"] =
                Entry(Strip(request.form.title), Strip(request.form.description),
                      SplitKeywords(request.form.keywords))]_vars

C15_RegistryOperationsAtomic ==
    /\ (request.handler = "check_processing_status" /\ response.status = "error")
          => response.message # "Unknown error"
    /\ \A j \in JobIds : runner[j].exc # "KeyError"

\* neither tier holds a translations map with content, and no source holds a
\* title or a description: the session, the generated content, api_details
NothingToReview ==
    /\ session.has_swagger_url
    /\ ~HasContent(files.translations)
    /\ ~HasContent(session.translations)
    /\ ~Truthy(session.title) /\ ~Truthy(session.description)
    /\ ~Truthy(session.generated_title) /\ ~Truthy(session.generated_description)
    /\ ~Truthy(files.api_details.title) /\ ~Truthy(files.api_details.description)
    /\ ~Truthy(files.generated_content.generated_title)
    /\ ~Truthy(files.generated_content.generated_description)

\* C16 as stated: with nothing to review, /upload redirects to the metadata
\* step and the translations of both tiers are what they were.
C16_NothingWrittenOnRedirect ==
    [][\A agency_identifier \in AgencyLookups :
          (NothingToReview /\ upload(agency_identifier))
             => /\ response'.kind = "redirect"
                /\ response'.target = "ai"
                /\ files'.translations = files.translations
                /\ session'.translations = session.translations]_vars

\* C16 amended: with nothing to review, /upload redirects to the metadata
\* step, the durable tier is untouched, and the session holds either the
\* translations it had or the copy of the durable map that
\* restore_all_data_from_files made, neither of which has content.
C16_RedirectWithoutSynthesis ==
    [][\A agency_identifier \in AgencyLookups :
          (NothingToReview /\ upload(agency_identifier))
             => /\ response'.kind = "redirect"
                /\ response'.target = "ai"
                /\ files' = files
                /\ session'.translations \in {session.translations, files.translations}
                /\ ~HasContent(session'.translations)]_vars

\* /upload has redirected to the metadata step over a blank durable map
C16_Witness ==
    /\ request.handler = "upload"
    /\ response.kind = "redirect"
    /\ response.target = "ai"
    /\ files.translations = BlankTranslations
    /\ ~HasContent(session.translations)

\* the value of one metadata field that counts before a request: what the
\* user saved in the session, else what api_details.json holds, else what
\* was generated (in the session, else in generated_content.json)
AuthoritativeField(field, generated_field) ==
    FirstNonEmpty(Or2(session[field], files.api_details[field]),
                  Or2(session[generated_field],
                      files.generated_content[generated_field]),
                  <<>>)

\* the translations the review step is to settle on, from the two tiers as
\* they are before the request; NoTranslations when there is nothing
ExpectedTranslations ==
    LET title == AuthoritativeField("title", "generated_title")
        description == AuthoritativeField("description", "generated_description")
        keywords == AuthoritativeField("keywords", "generated_keywords")
    IN  IF HasContent(files.translations) THEN files.translations
        ELSE IF HasContent(session.translations) THEN session.translations
        ELSE IF Truthy(title) \/ Truthy(description)
        THEN SeededTranslations(title, description, keywords)
        ELSE NoTranslations

\* C17: /upload takes the durable map when one of its languages has a title
\* or a description, else the session map under the same test, else a map
\* whose English entry is the authoritative title, description and keywords
\* and whose other entries are empty; it renders exactly when one of the
\* three exists, and leaves the chosen map in the session.
C17_TranslationsPrecedence ==
    [][\A agency_identifier \in AgencyLookups :
          (session.has_swagger_url /\ upload(agency_identifier))
             => /\ response'.kind = "render" <=> ExpectedTranslations # NoTranslations
                /\ response'.kind = "render"
                      => /\ response'.translations = ExpectedTranslations
                         /\ session'.translations = ExpectedTranslations]_vars

\* the page was rendered from the session map over a durable map without content
C17_Witness ==
    /\ request.handler = "upload"
    /\ response.kind = "render"
    /\ response.source = "session"
    /\ files.translations = BlankTranslations

\* C18: a pass of /upload that synthesizes translations leaves them in the
\* durable tier and sets translations_available in the session in the same
\* request; the pass that follows it takes the stored map from the durable
\* or the session tier and renders the same translations.
C18_SynthesisPersisted ==
    [][\A agency_identifier \in AgencyLookups :
          upload(agency_identifier)
             => /\ (response'.kind = "render" /\ response'.source = "synthesized")
                      => /\ files'.translations = response'.translations
                         /\ HasContent(files'.translations)
                         /\ session'.translations_available
                /\ (/\ request.handler = "upload"
                    /\ response.kind = "render"
                    /\ response.source = "synthesized")
                      => /\ response'.kind = "render"
                         /\ response'.source \in {"file", "session"}
                         /\ response'.translations = response.translations]_vars

\* the pass after a synthesizing pass has taken the map from the file
C18_Witness ==
    /\ request.handler = "upload"
    /\ request.after = "upload"
    /\ response.kind = "render"
    /\ response.source = "file"
    /\ files.translations = SeededTranslations(<<"g">>, <<>>, <<>>)

\* C19: a request for /ai while the job of the workflow is still processing
\* is redirected to the loading page of that job, the page that polls it;
\* it is not sent to the step-1 page and the review form is not rendered.
C19_WaitsOnLoadingPage ==
    [][\A cached \in Directories :
          (/\ workflow_id # 0
           /\ processing_results[workflow_id].status = "processing"
           /\ ai(cached))
             => /\ response'.kind = "redirect"
                /\ response'.target = "loading"
                /\ response'.job = workflow_id]_vars

\* C20: each sub-step of a job is executed at most once, and a runner that
\* caught an exception of a sub-step records the job as failed with the text
\* of the exception: its except branch does not raise itself, and when it is
\* through, the entry of the job, if still there, has status error and that
\* text.
C20_FailureRecordedNoRetry ==
    \A j \in JobIds :
        /\ \A step \in DOMAIN runner[j].calls : runner[j].calls[step] <= 1
        /\ runner[j].pc # "crashed"
        /\ (runner[j].pc = "done" /\ runner[j].exc # ""
               /\ processing_results[j] # NoEntry)
              => /\ processing_results[j].status = "error"
                 /\ processing_results[j].error = runner[j].exc

-----------------------------------------------------------------------------
(* Properties of the result store *)

\* C21: the result file of a job is written at most once, by the save step
\* of its runner and before the job is marked complete; a poll hands a
\* payload to the session only from a file that exists and removes the file
\* in the same request, so no payload is read a second time.
C21_PayloadWrittenAndReadOnce ==
    [][\A j \in JobIds :
          /\ runner'[j].calls.save_processing_data <= 1
          /\ (temp_files'[j] # temp_files[j] /\ temp_files'[j].stored)
                => /\ runner[j].pc = "save"
                   /\ runner[j].calls.save_processing_data = 0
                   /\ processing_results[j].status # "complete"
          /\ (check_processing_status(j) /\ response'.status = "complete")
                => /\ temp_files[j].stored
                   /\ session'.swagger_info = temp_files[j].swagger_info
                   /\ ~temp_files'[j].stored]_vars

\* the payload of a job was saved once, consumed by a poll and is gone
C21_Witness ==
    \E j \in JobIds :
        /\ j \in merged
        /\ runner[j].calls.save_processing_data = 1
        /\ ~temp_files[j].stored

-----------------------------------------------------------------------------
(* Properties of overlapping submissions *)

\* the session fields a poll takes from the payload of a job
PayloadFields(sess) ==
    [swagger_info |-> sess.swagger_info,
     landing_page_content |-> sess.landing_page_content,
     document_links |-> sess.document_links,
     address_data |-> sess.address_data,
     swagger_url |-> sess.swagger_url,
     landing_page_url |-> sess.landing_page_url,
     agents |-> sess.agents_temp.agents]

\* the same fields of a stored payload
PayloadOf(data) ==
    [swagger_info |-> data.swagger_info,
     landing_page_content |-> data.landing_page_content,
     document_links |-> data.document_links,
     address_data |-> data.address_data,
     swagger_url |-> data.swagger_url,
     landing_page_url |-> data.landing_page_url,
     agents |-> data.agents]

\* the first two parts of C22: every submission gets an id that no entry, no
\* result file and no thread has had before, and a step of the runner of one
\* job leaves the entries and the files of all other jobs as they are.
C22_JobsKeptApart ==
    [][/\ \A urls \in SubmittedUrls :
             url_post(urls[1], urls[2])
                => /\ workflow_id' # workflow_id
                   /\ processing_results[workflow_id'] = NoEntry
                   /\ ~temp_files[workflow_id'].stored
                   /\ runner[workflow_id'].pc = "idle"
       /\ \A j \in JobIds :
             process_api_data(j, Dependable)
                => \A k \in JobIds \ {j} :
                      /\ processing_results'[k] = processing_results[k]
                      /\ temp_files'[k] = temp_files[k]]_vars

\* C22: after a poll has consumed a job, the job fields of the session are
\* the result of that job alone: the payload and the status complete with no
\* error text of another job, or the status error with the error text of the
\* job and no payload of another job.
C22_LastConsumedJobWins ==
    [][\A j \in JobIds :
          check_processing_status(j)
             => /\ response'.status = "complete"
                   => /\ PayloadFields(session') = PayloadOf(temp_files[j])
                      /\ session'.processing_status = "complete"
                      /\ session'.processing_error = ""
                /\ processing_results[j].status = "error"
                   => /\ session'.processing_status = "error"
                      /\ session'.processing_error = ErrorMessage(processing_results[j])
                      /\ ~session'.has_swagger_url]_vars

-----------------------------------------------------------------------------
(* The publisher directory over time: calls of get_cached_agents while the
   catalog API answers or fails, the caches expire and the process restarts *)

NextAgents ==
    \/ \E fetched \in FetchOutcomes, saved \in SaveOutcomes :
          get_cached_agents(fetched, saved)
    \/ agents_cache_expires
    \/ agents_cache_file_expires
    \/ restart

SpecAgents == Init /\ [][NextAgents]_vars

\* C23: a call of get_cached_agents whose refresh fails returns a directory
\* that was obtained before, never the empty list, whenever a directory was
\* ever obtained.
C23_StaleServedOnRefreshFailure ==
    (/\ request.handler = "get_cached_agents"
     /\ request.refresh = "failed"
     /\ obtained # {})
        => response.agents \in obtained

-----------------------------------------------------------------------------
(* Properties of the translations that save_api_details stores *)

\* C24: after save_api_details has handled the AI form, the translations of
\* the session and of the durable tier are the same map with the four keys
\* en, de, fr, it; de, fr and it, which the handler cannot translate (the
\* translation function it imports does not exist), are there with an empty
\* title, description and keyword list, and the English entry is what
\* the form submitted (title and description up to surrounding blanks, the
\* keywords as the list the field splits into).
C24_AllLanguagesPresent ==
    (request.handler = "save_api_details" /\ request.form.is_ai_form)
        => /\ DOMAIN session.translations = Langs
           /\ files.translations = session.translations
           /\ \A l \in Langs \ {"en"} : session.translations[l] = EmptyEntry
           /\ Strip(session.translations["en"].title) = Strip(request.form.title)
           /\ Strip(session.translations["en"].description)
                 = Strip(request.form.description)
           /\ session.translations["en"].keywords
                 = SplitKeywords(request.form.keywords)

\* a form with a title was saved: English is filled, German is present and empty
C24_Witness ==
    /\ request.handler = "save_api_details"
    /\ request.form.title = <<"a", " ">>
    /\ session.translations["en"].title = <<"a">>
    /\ session.translations["en"].keywords = << <<"a">> >>
    /\ files.translations["de"] = EmptyEntry

-----------------------------------------------------------------------------
(* The submission: the review page and the submit requests that follow it,
   with every token a user can paste and every answer of the catalog API *)

NextSubmit ==
    \/ \E agency_identifier \in AgencyLookups : upload(agency_identifier)
    \/ \E token \in TypedTokens, answer \in ApiAnswers : submit_to_i14y(token, answer)

SpecSubmit == InitReview /\ [][NextSubmit]_vars

\* the text starts with the characters "Bearer "
StartsWithBearer(value) ==
    Len(value) >= 2 /\ value[1] = "Bearer" /\ value[2] = " "

\* after the blanks in front, the text has the word bearer in any case, a
\* blank and something that is not a blank
BearerIgnoringCase(value) ==
    \E i \in 1..Len(value) :
        /\ \A k \in 1..(i - 1) : value[k] = " "
        /\ value[i] \in {"Bearer", "bearer", "BEARER"}
        /\ i + 1 <= Len(value) /\ value[i + 1] = " "
        /\ \E k \in (i + 2)..Len(value) : value[k] # " "

FailureClass(answer) ==
    IF answer.raised # "" THEN "unreachable"
    ELSE IF answer.status_code \in {"200", "201"} THEN "none"
    ELSE IF answer.status_code \in {"401", "403"} THEN "authentication"
    ELSE IF answer.status_code \in {"400", "422"} THEN "validation"
    ELSE "other"

\* C26: every failure of the submission comes back as a value with success
\* false, and the value a submit request got back can come from failures of
\* one kind only (authentication, validation, other status, timeout or
\* connection).
C26_FailuresDistinguishable ==
    /\ \A answer \in ApiAnswers :
          FailureClass(answer) # "none" => ~submit_data_to_i14y_api(answer).success
    /\ (request.handler = "submit_to_i14y" /\ response.api_calls = 1)
          => LET returned == [success |-> response.success,
                              error |-> response.error,
                              full_error |-> response.full_error]
             IN  \A a, b \in ApiAnswers :
                    (/\ submit_data_to_i14y_api(a) = returned
                     /\ submit_data_to_i14y_api(b) = returned)
                       => FailureClass(a) = FailureClass(b)

\* C27: a document sent right after the review page was rendered has the
\* English title the page showed and the selected publisher as its
\* publisher, and it is the document the page showed as preview.
C27_SentDocumentIsPreview ==
    [][(/\ request.handler = "upload"
        /\ response.kind = "render"
        /\ request'.handler = "submit_to_i14y"
        /\ response'.api_calls = 1)
          => /\ response'.json_data.title["en"] = response.translations["en"].title
             /\ response'.json_data.publisher = session'.selected_agency
             /\ response'.json_data = response.json_data]_vars

-----------------------------------------------------------------------------
(* The session files on disk: session_utils.save_to_session_file and
   load_from_session_file.  In SpecSessionFiles the variable files holds the
   directories of session_storage with the text of each <key>.json, and the
   variable session holds, for each browser, the keys session_utils puts in
   its Flask session. *)

\* values of time.time() at which a session can be given its id
MaxSessionIds == 2

\* browsers, each with a session cookie of its own
MaxBrowsers == 2

Browsers == 1..MaxBrowsers

\* time.time() is the wall clock: two calls can read the same value
ClockValues == 1..MaxSessionIds

\* hashlib.md5(str(time.time()).encode()).hexdigest(): the id is a function
\* of the clock value alone; ids are named by the value they are the digest of
Md5OfTime(now) == now

SessionIds == {Md5OfTime(now) : now \in ClockValues}

\* the keys the handlers store under
SessionKeys == {"api_details", "translations"}

\* a dict is the sequence of its items in insertion order; the handlers store
\* dicts with string keys only
StoredValues ==
    {<<>>, <<<<"title", "b">>, <<"description", "a">>>>}

\* the lengths, in tokens, a damaged file is cut to
DamagePoints == {0, 2}

\* the default the caller passes to load_from_session_file
Defaults == {<<>>, <<<<"default", "d">>>>}

\* the lexical tokens of a JSON text
P(c) == <<"punctuation", c>>
S(s) == <<"string", s>>

\* json.dump of a dict: { "k": "v", ... }
RECURSIVE JsonMembers(_)
JsonMembers(items) ==
    IF items = <<>> THEN <<>>
    ELSE <<S(items[1][1]), P(":"), S(items[1][2])>>
         \o (IF Len(items) > 1 THEN <<P(",")>> \o JsonMembers(Tail(items))
             ELSE <<>>)

JsonDump(data) == <<P("{")>> \o JsonMembers(data) \o <<P("}")>>

\* json.load: the dict, or JSONDecodeError (ok = FALSE)
RECURSIVE ParseMembers(_)
ParseMembers(text) ==
    IF /\ Len(text) >= 3
       /\ text[1][1] = "string" /\ text[2] = P(":") /\ text[3][1] = "string"
    THEN LET item == <<text[1][2], text[3][2]>>
         IN  IF Len(text) = 3 THEN [ok |-> TRUE, data |-> <<item>>]
             ELSE IF text[4] = P(",")
                  THEN LET rest == ParseMembers(SubSeq(text, 5, Len(text)))
                       IN  [ok |-> rest.ok, data |-> <<item>> \o rest.data]
                  ELSE [ok |-> FALSE, data |-> <<>>]
    ELSE [ok |-> FALSE, data |-> <<>>]

JsonLoad(text) ==
    IF Len(text) >= 2 /\ text[1] = P("{") /\ text[Len(text)] = P("}")
    THEN IF Len(text) = 2 THEN [ok |-> TRUE, data |-> <<>>]
         ELSE ParseMembers(SubSeq(text, 2, Len(text) - 1))
    ELSE [ok |-> FALSE, data |-> <<>>]

\* a path of session_storage/<_id>/ at which no file exists.  written and
\* intact are history: the data of the last save to this path, and whether
\* the text is still the one that save wrote
NoSessionFile == [exists |-> FALSE, text |-> <<>>, written |-> <<>>, intact |-> FALSE]

\* a session id whose directory has not been made
NoDirectory == [made |-> FALSE, file |-> [key \in SessionKeys |-> NoSessionFile]]

\* the Flask session as session_utils uses it: '_id' (0: not set) and the
\* '<key>_stored' flags
NoSessionId == [_id |-> 0, stored |-> {}]

\* get_session_file_path(key) at the clock value now: the session gets the
\* digest of now as its id if it has none, the directory of the id is made
\* if it does not exist; the path is <<session._id, key>>
get_session_file_path(sess, storage, now) ==
    LET session_id == IF sess._id # 0 THEN sess._id ELSE Md5OfTime(now)
    IN  [session |-> [sess EXCEPT !._id = session_id],
         files   |-> [storage EXCEPT ![session_id].made = TRUE]]

\* open(filepath, 'a') in place of 'w': the text is added to the old one
AppendSessionFile(file, data) ==
    [exists |-> TRUE, text |-> file.text \o JsonDump(data), written |-> data,
     intact |-> TRUE]

\* open(filepath, 'w'); json.dump(data, f)
WriteSessionFile(file, data) ==
    [exists |-> TRUE, text |-> JsonDump(data), written |-> data, intact |-> TRUE]

\* a request of browser b calls save_to_session_file(key, data)
save_to_session_file(b, key, data, now) ==
    /\ LET path == get_session_file_path(session[b], files, now)
           id   == path.session._id
       IN  /\ files' = [path.files EXCEPT
                           ![id].file[key] = WriteSessionFile(@, data)]
           /\ session' = [session EXCEPT
                             ![b] = [path.session EXCEPT !.stored = @ \cup {key}]]
    /\ request' = [handler |-> "save_to_session_file", method |-> "",
                   browser |-> b, key |-> key]
    /\ response' = [kind |-> "returned", value |-> <<>>]
    /\ UNCHANGED <<cachevars, polls, jobvars, histvars>>

\* a request of browser b calls load_from_session_file(key, default)
load_from_session_file(b, key, default, now) ==
    /\ LET path == get_session_file_path(session[b], files, now)
           file == path.files[path.session._id].file[key]
           loaded == JsonLoad(file.text)
       IN  /\ files' = path.files
           /\ session' = [session EXCEPT ![b] = path.session]
           /\ response' = [kind  |-> "returned",
                           value |-> IF ~file.exists THEN default
                                     ELSE IF loaded.ok THEN loaded.data
                                     ELSE default]
    /\ request' = [handler |-> "load_from_session_file", method |-> "",
                   browser |-> b, key |-> key, default |-> default]
    /\ UNCHANGED <<cachevars, polls, jobvars, histvars>>

\* a write that was cut short, or damage from outside the program: the file
\* keeps only the first n tokens of its text
damage_session_file(id, key, n) ==
    /\ files[id].file[key].exists
    /\ n < Len(files[id].file[key].text)
    /\ files' = [files EXCEPT ![id].file[key].text = SubSeq(@, 1, n),
                              ![id].file[key].intact = FALSE]
    /\ request' = [handler |-> "damage", method |-> ""]
    /\ response' = [kind |-> "none"]
    /\ UNCHANGED <<cachevars, polls, jobvars, session, histvars>>

\* index(): session.clear() drops '_id' and the flags; the files stay
forget_session(b) ==
    /\ session[b]._id # 0
    /\ session' = [session EXCEPT ![b] = NoSessionId]
    /\ request' = [handler |-> "index", method |-> "GET", browser |-> b]
    /\ response' = [kind |-> "page"]
    /\ UNCHANGED <<cachevars, polls, jobvars, files, histvars>>

InitSessionFiles ==
    /\ processing_results = [j \in JobIds |-> NoEntry]
    /\ temp_files = [j \in JobIds |-> NoFile]
    /\ runner = [j \in JobIds |-> IdleRunner]
    /\ workflow_id = 0
    /\ session = [b \in Browsers |-> NoSessionId]
    /\ files = [i \in SessionIds |-> NoDirectory]
    /\ request = [handler |-> "", method |-> ""]
    /\ response = [kind |-> "none"]
    /\ merged = {}
    /\ delivered = [j \in JobIds |-> 0]
    /\ observed = [j \in JobIds |-> 0]
    /\ terminal_writes = [j \in JobIds |-> 0]
    /\ agents_cache = NoAgentsCache
    /\ agents_cache_file = NoAgentsCacheFile
    /\ obtained = {}
    /\ polls = [t \in PollThreads |-> IdlePoll]

\* one browser, every key, value and default, files that get damaged
NextSessionFiles ==
    \/ \E key \in SessionKeys, data \in StoredValues, now \in ClockValues :
           save_to_session_file(1, key, data, now)
    \/ \E key \in SessionKeys, default \in Defaults, now \in ClockValues :
           load_from_session_file(1, key, default, now)
    \/ \E id \in SessionIds, key \in SessionKeys, n \in DamagePoints :
           damage_session_file(id, key, n)
    \/ forget_session(1)

SpecSessionFiles == InitSessionFiles /\ [][NextSessionFiles]_vars

\* C28: load_from_session_file returns the data the last save_to_session_file
\* wrote for the session's id and the key (a later save replaces an earlier
\* one); it returns the caller's default, and does not raise, when no file is
\* at the path or when the file cannot be parsed.
C28_LoadReturnsLastSaved ==
    request.handler = "load_from_session_file"
        => LET file == files[session[request.browser]._id].file[request.key]
           IN  /\ response.kind = "returned"
               /\ response.value = IF file.exists /\ file.intact THEN file.written
                                   ELSE request.default

\* a load has returned the data saved under its key while the other key of the
\* session and the same key of another session hold other data
C28_Witness ==
    /\ request.handler = "load_from_session_file"
    /\ files[session[request.browser]._id].file[request.key].intact
    /\ response.value = <<<<"title", "b">>, <<"description", "a">>>>
    /\ \E k \in SessionKeys \ {request.key} :
           /\ files[session[request.browser]._id].file[k].intact
           /\ files[session[request.browser]._id].file[k].written # response.value
    /\ \E i \in SessionIds \ {session[request.browser]._id} :
           /\ files[i].file[request.key].intact
           /\ files[i].file[request.key].written # response.value

\* a load has answered a file that was cut short with the caller's default
C28_DamagedWitness ==
    /\ request.handler = "load_from_session_file"
    /\ files[session[request.browser]._id].file[request.key].exists
    /\ ~files[session[request.browser]._id].file[request.key].intact
    /\ response.value = <<<<"default", "d">>>>

-----------------------------------------------------------------------------
(* The metadata step with its three sources: what the user saved, what was
   generated, what was extracted.  Started from every combination of the two
   tiers; the user saves the form, asks for a generation, opens the page. *)

NextSources ==
    \/ \E form \in ReviewAiForms : save_api_details(form)
    \/ \E generated_content \in GenerateOutcomes : generate(generated_content)
    \/ \E cached \in {{}, {<<"CH_", "BAFU">>}} : ai(cached)
    \/ index

SpecSources == InitReview /\ [][NextSources]_vars

\* what the user saved for a field: the session's value, else the one of
\* api_details.json
UserSaved(field) ==
    IF session[field] # <<>> THEN session[field] ELSE files.api_details[field]

\* what was generated for a field: the session's value, else the one of
\* generated_content.json
AiGenerated(field) ==
    IF session[field] # <<>> THEN session[field] ELSE files.generated_content[field]

\* what the job extracted from the source specification, as /ai presents it
Extracted(field) ==
    LET swagger_info == IF session.swagger_info.error THEN NoSwaggerInfo
                        ELSE session.swagger_info
    IN  CASE field = "title" -> swagger_info.title
          [] field = "description" ->
                 FullDescription(swagger_info, session.landing_page_content,
                                 session.document_links)
          [] field = "keywords" -> <<>>

\* the first of the three that is not empty
Precedence(field, generated_field) ==
    IF UserSaved(field) # <<>> THEN UserSaved(field)
    ELSE IF AiGenerated(generated_field) # <<>> THEN AiGenerated(generated_field)
    ELSE Extracted(field)

\* C29: the title, the description and the keywords the metadata step shows
\* are, for each field, the first non-empty of the user-saved value, the
\* generated value and the extracted value; a generation leaves the
\* user-saved values of both tiers as they are, so that a non-empty one is
\* still shown after it.
C29_UserThenGeneratedThenExtracted ==
    [][/\ \A cached \in {{}, {<<"CH_", "BAFU">>}} :
             (ai(cached) /\ response'.kind = "render")
                => /\ response'.title = Precedence("title", "generated_title")
                   /\ response'.description
                         = Precedence("description", "generated_description")
                   /\ response'.keywords
                         = Precedence("keywords", "generated_keywords")
       /\ \A generated_content \in GenerateOutcomes :
             generate(generated_content)
                => \A field \in {"title", "description", "keywords"} :
                       /\ session'[field] = session[field]
                       /\ files'.api_details[field] = files.api_details[field]]_vars

\* the page shows the title the user saved although a generation has left a
\* title in both tiers and the specification has one of its own
C29_Witness ==
    /\ request.handler = "ai"
    /\ response.kind = "render"
    /\ response.title = <<"a">>
    /\ session.generated_title = <<"g">>
    /\ files.generated_content.stored
    /\ session.swagger_info.title = <<"s">>

-----------------------------------------------------------------------------
(* Properties of the runner's failure path *)

\* C30: once a poll has answered with a job's terminal state and deleted the
\* entry, no step of the runner or of a handler puts an entry with that id
\* back into the registry.
C30_ConsumedEntryStaysDeleted ==
    [][\A j \in JobIds :
          (delivered[j] > 0 /\ processing_results[j] = NoEntry)
             => processing_results'[j] = NoEntry]_vars

-----------------------------------------------------------------------------
(* Properties of the poll of a failed job *)

\* C31: a poll that finds a started job in the error state answers with the
\* text the runner records for the failure, never with the placeholder
\* "Unknown error", whichever way the poll falls between the runner's write
\* of the status and its write of the text.
C31_RecordedReasonDelivered ==
    (/\ request.handler = "check_processing_status"
     /\ request.processing_id \in JobIds
     /\ response.status = "error")
        => (runner[request.processing_id].pc # "idle"
               => response.message # "Unknown error")

-----------------------------------------------------------------------------
(* GET /check_processing_status served by request threads that run at the
   same time: the handler is cut at each access to the registry or to the
   result file, between which another request thread can run.  The answer
   of a thread is kept in polls. *)

\* a thread has finished its request with the given answer
Answered(t, answer, message) ==
    [polls EXCEPT ![t].pc = "done", ![t].answer = answer, ![t].message = message]

\* "session['processing_id'] = processing_id" and
\* "if processing_id in processing_results", else the stale-id answer
poll_begin(t, processing_id) ==
    /\ polls[t].pc = "idle"
    /\ IF processing_results[processing_id] # NoEntry
       THEN /\ polls' = [polls EXCEPT ![t].pc = "read",
                                      ![t].processing_id = processing_id]
            /\ session' = [session EXCEPT !.processing_id = processing_id]
       ELSE /\ polls' = [Answered(t, "expired", ExpiredMessage) EXCEPT
                            ![t].processing_id = processing_id]
            /\ session' = [session EXCEPT !.processing_id = 0]
    /\ UNCHANGED <<cachevars, jobvars, files, request, response, histvars>>

\* "result = processing_results[processing_id]": a KeyError when the entry
\* was deleted since the membership test; else the branch on the status
poll_read(t) ==
    LET result == processing_results[polls[t].processing_id]
    IN  /\ polls[t].pc = "read"
        /\ polls' =
              IF result = NoEntry THEN Answered(t, "raised", "KeyError")
              ELSE IF result.status = "processing" THEN Answered(t, "processing", "")
              ELSE [polls EXCEPT
                       ![t].pc = IF result.status = "complete" THEN "load" ELSE "fail",
                       ![t].status = result.status,
                       ![t].message = ErrorMessage(result)]
        /\ UNCHANGED <<cachevars, jobvars, session, files, request, response,
                       histvars>>

\* load_processing_data: os.path.exists, open, pickle.load; None when the
\* file is not there
poll_load(t) ==
    LET temp_file == temp_files[polls[t].processing_id]
    IN  /\ polls[t].pc = "load"
        /\ IF temp_file.stored
           THEN /\ polls' = [polls EXCEPT ![t].pc = "remove",
                                          ![t].processing_data = temp_file]
                /\ UNCHANGED delivered
           ELSE /\ polls' = Answered(t, "failed", "Failed to load processing data")
                /\ delivered' = [delivered EXCEPT ![polls[t].processing_id] = @ + 1]
        /\ UNCHANGED <<cachevars, jobvars, session, files, request, response,
                       merged, observed, terminal_writes>>

\* load_processing_data: os.remove raises when another thread has removed
\* the file; the except branch then returns None in place of the payload
poll_remove(t) ==
    LET processing_id == polls[t].processing_id
    IN  /\ polls[t].pc = "remove"
        /\ IF temp_files[processing_id].stored
           THEN /\ temp_files' = RemoveLoadedFile(temp_files, processing_id)
                /\ polls' = [polls EXCEPT ![t].pc = "merge", ![t].loaded = TRUE]
                /\ UNCHANGED delivered
           ELSE /\ polls' = Answered(t, "failed", "Failed to load processing data")
                /\ delivered' = [delivered EXCEPT ![processing_id] = @ + 1]
                /\ UNCHANGED temp_files
        /\ UNCHANGED <<cachevars, processing_results, runner, workflow_id, session,
                       files, request, response, merged, observed, terminal_writes>>

\* the payload goes into the session, "del processing_results[processing_id]"
\* and the answer complete; a KeyError of the del leaves the session as it was
poll_merge(t) ==
    LET processing_id == polls[t].processing_id
    IN  /\ polls[t].pc = "merge"
        /\ IF processing_results[processing_id] # NoEntry
           THEN /\ session' = MergeProcessingData(session, polls[t].processing_data)
                /\ processing_results' = Consume(processing_results, processing_id)
                /\ polls' = Answered(t, "complete", "")
                /\ merged' = merged \cup {processing_id}
                /\ delivered' = [delivered EXCEPT ![processing_id] = @ + 1]
           ELSE /\ polls' = Answered(t, "raised", "KeyError")
                /\ UNCHANGED <<processing_results, session, merged, delivered>>
        /\ UNCHANGED <<cachevars, temp_files, runner, workflow_id, files, request,
                       response, observed, terminal_writes>>

\* the error branch: the text goes into the session, the entry is deleted
poll_fail(t) ==
    LET processing_id == polls[t].processing_id
    IN  /\ polls[t].pc = "fail"
        /\ IF processing_results[processing_id] # NoEntry
           THEN /\ session' = [session EXCEPT
                                  !.processing_status = "error",
                                  !.processing_error = polls[t].message]
                /\ processing_results' = Consume(processing_results, processing_id)
                /\ polls' = Answered(t, "error", polls[t].message)
                /\ delivered' = [delivered EXCEPT ![processing_id] = @ + 1]
           ELSE /\ polls' = Answered(t, "raised", "KeyError")
                /\ UNCHANGED <<processing_results, session, delivered>>
        /\ UNCHANGED <<cachevars, temp_files, runner, workflow_id, files, request,
                       response, merged, observed, terminal_writes>>

NextPolls ==
    \/ first_url_post(UrlBafu, UrlLanding)
    \/ \E j \in JobIds : process_api_data(j, Dependable)
    \/ \E t \in PollThreads, processing_id \in 1..workflow_id :
           poll_begin(t, processing_id)
    \/ \E t \in PollThreads :
           poll_read(t) \/ poll_load(t) \/ poll_remove(t) \/ poll_merge(t)
              \/ poll_fail(t)

SpecPolls == Init /\ [][NextPolls]_vars

\* C32: of the polls that run at the same time for a job that completed, at
\* most one merges the payload and answers complete, and none of them raises.
C32_OnePollMergesNoneRaises ==
    \A j \in JobIds :
        LET same_job == {t \in PollThreads : polls[t].processing_id = j}
        IN  /\ Cardinality({t \in same_job : polls[t].answer = "complete"}) <= 1
            /\ Cardinality({t \in same_job : polls[t].loaded}) <= 1
            /\ j \in merged => \A t \in same_job : polls[t].answer # "raised"

\* of the polls of one job at most one gets the payload and answers complete
C32_AtMostOneMerge ==
    \A j \in JobIds :
        LET same_job == {t \in PollThreads : polls[t].processing_id = j}
        IN  /\ Cardinality({t \in same_job : polls[t].answer = "complete"}) <= 1
            /\ Cardinality({t \in same_job : polls[t].loaded}) <= 1

-----------------------------------------------------------------------------
(* Properties of the order of the payload and the status *)

\* a poll has taken the payload of the job: its os.remove succeeded
Taken(j) == \E t \in PollThreads : polls[t].processing_id = j /\ polls[t].loaded

-----------------------------------------------------------------------------
(* A second workflow in the same browser session: the first job has been
   merged, the user works on its metadata and then submits another URL *)

InitWorkflows ==
    /\ AfterFirstJob
    /\ session = MergedSession
    /\ files = EmptyFiles
    /\ request = [handler |-> "none", method |-> ""]
    /\ response = [kind |-> "none"]

NextWorkflows ==
    \/ \E form \in ReviewAiForms : save_api_details(form)
    \/ \E generated_content \in GenerateOutcomes : generate(generated_content)
    \/ url_post(UrlBfs, <<>>)
    \/ \E j \in JobIds : process_api_data(j, Dependable)
    \/ \E arg \in 0..workflow_id : check_processing_status(arg)
    \/ \E cached \in Dependable.directories : ai(cached)
    \/ index

SpecWorkflows == InitWorkflows /\ [][NextWorkflows]_vars

\* C34: when the metadata step opens right after the poll that merged the job
\* of a later submission, nothing has been entered or generated for the new
\* URL, so the step shows what was extracted from it: the title of its
\* specification, no keywords, and the publisher detected from its URLs.
C34_NewWorkflowStartsClean ==
    [][(/\ request.handler = "check_processing_status"
        /\ response.status = "complete"
        /\ request.processing_id > 1
        /\ request'.handler = "ai"
        /\ response'.kind = "render")
          => /\ response'.title = session.swagger_info.title
             /\ response'.keywords = <<>>
             /\ response'.selected_agency
                   = DetectAgency(<<session.swagger_url, session.landing_page_url>>,
                                  response'.agents)]_vars

-----------------------------------------------------------------------------
(* The durable-tier scopes of two browsers *)

\* two browsers save, load and start over; files are not damaged
NextScopes ==
    \/ \E b \in Browsers, key \in SessionKeys, data \in StoredValues,
          now \in ClockValues :
           save_to_session_file(b, key, data, now)
    \/ \E b \in Browsers, key \in SessionKeys, now \in ClockValues :
           load_from_session_file(b, key, <<>>, now)
    \/ \E b \in Browsers : forget_session(b)

SpecScopes == InitSessionFiles /\ [][NextScopes]_vars

\* C35: two browsers whose sessions both have an id have different ids, so
\* neither reads or overwrites the files in the directory of the other.
C35_ScopesDisjoint ==
    \A b, c \in Browsers :
        (b # c /\ session[b]._id # 0 /\ session[c]._id # 0)
           => session[b]._id # session[c]._id

-----------------------------------------------------------------------------
(* Properties of the two tiers after a review request *)

\* C36: after a request that wrote or reconciled the translations (the AI
\* form saved, the review form autosaved, /upload rendered) the session and
\* the durable tier hold the same translations map.
C36_TiersEqualAfterWrite ==
    (\/ request.handler = "save_api_details" /\ request.form.is_ai_form
     \/ request.handler = "autosave_review" /\ response.kind = "json"
     \/ request.handler = "upload" /\ response.kind = "render")
        => session.translations = files.translations

-----------------------------------------------------------------------------
(* Properties of the choice of the authoritative translations *)

\* the map submit_to_i14y builds the document from, in the state as it is:
\* session.get('translations') after restore_all_data_from_files
SubmitChoice == restore_all_data_from_files(session, files).translations

\* the map autosave_review starts from, in the state as it is:
\* load_from_session_file('translations', {}) or session.get('translations', {})
AutosaveChoice ==
    IF files.translations # NoTranslations THEN files.translations
    ELSE session.translations

\* C37: whatever the two tiers hold, the map /upload shows for review, taken
\* from the file or from the session, is the map submit_to_i14y and
\* autosave_review take from the same two tiers.
C37_SameMapAuthoritative ==
    [][\A agency_identifier \in AgencyLookups :
          (/\ upload(agency_identifier)
           /\ response'.kind = "render"
           /\ response'.source \in {"file", "session"})
             => /\ response'.translations = SubmitChoice
                /\ response'.translations = AutosaveChoice]_vars

-----------------------------------------------------------------------------
(* Properties of restore_all_data_from_files *)

\* the session keys that hold a string or a list
TextKeys ==
    {"title", "description", "keywords", "theme_codes", "selected_agency",
     "generated_title", "generated_description", "generated_keywords",
     "swagger_url", "landing_page_url", "landing_page_content",
     "document_links", "address_data"}

\* the session key holds a value that is not empty
HoldsValue(sess, key) ==
    IF key \in TextKeys THEN Truthy(sess[key])
    ELSE IF key \in {"access_rights_code", "license_code"}
    THEN sess[key] \notin {Absent, ""}
    ELSE IF key = "translations" THEN sess[key] # NoTranslations
    ELSE IF key = "translations_available" THEN sess[key]
    ELSE TRUE

-----------------------------------------------------------------------------
(* Properties of the translations save_api_details stores *)

\* C39: after save_api_details has stored the metadata of the AI form, the
\* German, French and Italian entries of both tiers are empty (no
\* translation can be made, and none that was stored or entered for the
\* earlier metadata is left), and the English entry holds the new values
C39_NoStaleTranslations ==
    (request.handler = "save_api_details" /\ request.form.is_ai_form) =>
        /\ \A l \in Langs \ {"en"} :
              /\ session.translations[l] = EmptyEntry
              /\ files.translations[l] = EmptyEntry
        /\ session.translations["en"] =
              Entry(session.title, session.description, session.keywords)
        /\ files.translations = session.translations

\* the user saved a title other than the stored one; the tiers hold the new
\* English entry and nothing in German
C39_Witness ==
    /\ request.handler = "save_api_details"
    /\ request.form.is_ai_form
    /\ Truthy(session.title)
    /\ session.title # <<"a">>
    /\ session.translations["en"].title = session.title
    /\ files.translations["en"].title = session.title
    /\ session.translations["de"] = EmptyEntry
    /\ files.translations["de"] = EmptyEntry

-----------------------------------------------------------------------------
(* The job flow under fair scheduling: every runner thread that can take a
   step is scheduled in the end (the external calls return or raise), and
   the client of a job goes on polling its id *)

\* one poll of the client that waits for job j
client_poll(j) ==
    /\ runner[j].pc # "idle"
    /\ check_processing_status(j)

NextLive ==
    \/ url_post(UrlBafu, UrlLanding)
    \/ \E j \in JobIds : process_api_data(j, Dependable)
    \/ \E j \in JobIds : client_poll(j)

Fairness ==
    \A j \in JobIds :
        /\ WF_vars(process_api_data(j, Dependable))
        /\ WF_vars(client_poll(j))

SpecLive == Init /\ [][NextLive]_vars /\ Fairness

\* C40: every job that was launched reaches a terminal state (the runner
\* writes complete or error), and the client that keeps polling its id gets
\* a terminal answer, so it is not answered 'processing' for ever
C40_JobsEndAndAreAnswered ==
    \A j \in JobIds :
        (runner[j].pc # "idle") ~> (terminal_writes[j] >= 1 /\ delivered[j] >= 1)

\* the second job failed while its specification was read, its runner has
\* ended, and a poll has delivered the failure
C40_Witness ==
    /\ runner[MaxJobs].pc = "done"
    /\ runner[MaxJobs].exc = "exception"
    /\ terminal_writes[MaxJobs] >= 1
    /\ delivered[MaxJobs] >= 1
    /\ response.kind = "json"
    /\ response.status = "error"

=============================================================================
